---------------------------- MODULE Spec2Model ----------------------------
(***************************************************************************)
(* A state-machine model of the streaming speech-delivery pipeline:        *)
(*   AudioPlayer        (src/tts/audio_player.py)      - the audio sink    *)
(*   ConversationState  (src/tts/tts_orchestrator.py)  - generation id     *)
(*   TTSOrchestrator    (src/tts/tts_orchestrator.py)  - the action loop   *)
(*   TTSClient          (src/tts/tts_client.py)        - speak / interrupt *)
(*                                                                         *)
(* Two specifications are defined over the same variables:                 *)
(*   SpecSink  one client thread calling play/start/stop on the sink while *)
(*             the audio backend's thread runs the callback;               *)
(*   SpecOrch  TTSClient.speak on its event loop, TTSClient.interrupt on   *)
(*             another thread, and the audio backend's callback thread.    *)
(***************************************************************************)
EXTENDS Integers, Sequences, FiniteSets

(***************************************************************************)
(* Bounds of the model.                                                    *)
(***************************************************************************)
\* frames requested per callback tick (AudioPlayer's blocksize, scaled down)
Blocksize == 2
\* longest queue the client of SpecSink builds up
MaxQueue == 2
\* most samples a SpecSink client enqueues between a start() and a stop()
MaxAccepted == 4
\* SpecOrch: speak() calls, interrupt() calls, text chunks per speak(),
\* chunks per provider stream
MaxTurns == 1
MaxInterrupts == 1
MaxTexts == 1
MaxChunks == 2
\* SpecProv: stream() calls made, workers started
MaxStreams == 2
MaxSpawns == 2
\* SpecPlan: feed() calls per turn, and the buffer length that forces a
\* flush (300 in _should_flush, scaled down)
MaxFeeds == 3
FlushLen == 5
\* SpecPlan: turns, each ended by finalize()
MaxPlanTurns == 2

(***************************************************************************)
(* PCM data.  A chunk is a sequence of bytes (0..255).  A decoded sample   *)
(* is kept as its int16 numerator n, standing for the float32 n / 32768.0  *)
(* (exact for every int16 n); silence is 0.                                *)
(***************************************************************************)
PcmChunks == { <<>>, <<1, 0>>, <<2, 0, 255, 255>>, <<3, 0, 4>> }

\* one little-endian int16 from two bytes (np.frombuffer(..., dtype=np.int16))
Int16LE(lo, hi) ==
    LET u == lo + 256 * hi
    IN  IF u >= 32768 THEN u - 65536 ELSE u

\* np.frombuffer(pcm_chunk, dtype=np.int16).astype(np.float32) / 32768.0
\* for a chunk of even length
RECURSIVE DecodeInt16(_)
DecodeInt16(bytes) ==
    IF Len(bytes) < 2 THEN << >>
    ELSE <<Int16LE(bytes[1], bytes[2])>> \o DecodeInt16(SubSeq(bytes, 3, Len(bytes)))

\* np.frombuffer raises ValueError when the buffer size is not a multiple
\* of the element size (2)
DecodeRaises(bytes) == Len(bytes) % 2 # 0

RECURSIVE Zeros(_)
Zeros(n) == IF n <= 0 THEN << >> ELSE <<0>> \o Zeros(n - 1)

IsPrefix(s, t) == Len(s) <= Len(t) /\ SubSeq(t, 1, Len(s)) = s

\* the last n elements of s (all of s when it is shorter)
LastN(s, n) == IF Len(s) <= n THEN s ELSE SubSeq(s, Len(s) - n + 1, Len(s))

(***************************************************************************)
(* AudioPlayer as pure operators on the sink's fields.                     *)
(*   is_playing  the started flag                                          *)
(*   stream      TRUE iff self.stream is an OutputStream (not None)        *)
(*   open        number of backend output streams opened and not closed    *)
(*   queue       audio_queue: FIFO of undecoded chunks                     *)
(*   buffer      decoded samples not yet emitted                           *)
(***************************************************************************)
\* AudioPlayer.__init__
NewSink ==
    [is_playing |-> FALSE, stream |-> FALSE, open |-> 0,
     queue |-> << >>, buffer |-> << >>]

\* play(), line 62: the test of the started flag
PlayAccepts(s) == s.is_playing

\* play(), line 63: audio_queue.put(pcm_chunk)
QueuePut(s, chunk) == [s EXCEPT !.queue = Append(@, chunk)]

\* play() run without interruption
PlayAlwaysEnqueues(s, chunk) == QueuePut(s, chunk)
SinkPlay(s, chunk) == IF PlayAccepts(s) THEN QueuePut(s, chunk) ELSE s

\* start()
StartWithoutGuard(s) ==
    [s EXCEPT !.is_playing = TRUE, !.buffer = << >>, !.queue = << >>,
              !.stream = TRUE, !.open = @ + 1]
SinkStart(s) ==
    IF s.is_playing THEN s
    ELSE [s EXCEPT !.is_playing = TRUE, !.buffer = << >>, !.queue = << >>,
                   !.stream = TRUE, !.open = @ + 1]

\* stop()
StopKeepsFlag(s) ==
    [s EXCEPT !.stream = FALSE, !.open = IF s.stream THEN @ - 1 ELSE @,
              !.queue = << >>, !.buffer = << >>]
StopKeepsQueue(s) ==
    [s EXCEPT !.is_playing = FALSE,
              !.stream = FALSE, !.open = IF s.stream THEN @ - 1 ELSE @,
              !.buffer = << >>]
SinkStop(s) ==
    [s EXCEPT !.is_playing = FALSE,
              !.stream = FALSE, !.open = IF s.stream THEN @ - 1 ELSE @,
              !.queue = << >>, !.buffer = << >>]

\* _audio_callback, lines 34-42: pull chunks until the buffer holds `frames`
\* samples or the queue is empty; a chunk that cannot be decoded has already
\* been taken off the queue when np.frombuffer raises
RECURSIVE FillBuffer(_, _, _)
FillBuffer(q, b, frames) ==
    IF Len(b) >= frames \/ q = << >>
    THEN [queue |-> q, buffer |-> b, raised |-> FALSE]
    ELSE IF DecodeRaises(Head(q))
         THEN [queue |-> Tail(q), buffer |-> b, raised |-> TRUE]
         ELSE FillBuffer(Tail(q), b \o DecodeInt16(Head(q)), frames)

\* the block left in outdata when the callback raised before writing it
Unfilled == << >>

\* a tick that does not keep what it could not emit
CallbackDropsRemainder(s, frames) ==
    LET f == FillBuffer(s.queue, s.buffer, frames)
        t == [s EXCEPT !.queue = f.queue, !.buffer = f.buffer]
        n == Len(s.queue) - Len(f.queue)
    IN  IF f.raised
        THEN [sink |-> t, out |-> Unfilled, real |-> 0, popped |-> n, raised |-> TRUE]
        ELSE IF Len(f.buffer) >= frames
        THEN [sink |-> [t EXCEPT !.buffer = << >>],
              out |-> SubSeq(f.buffer, 1, frames), real |-> frames,
              popped |-> n, raised |-> FALSE]
        ELSE [sink |-> [t EXCEPT !.buffer = << >>],
              out |-> f.buffer \o Zeros(frames - Len(f.buffer)),
              real |-> Len(f.buffer), popped |-> n, raised |-> FALSE]

\* _audio_callback, one tick: the sink afterwards, the block written to
\* outdata, how many of its samples are audio (not padding), how many chunks
\* were taken off the queue, and whether the tick raised
SinkCallback(s, frames) ==
    LET f == FillBuffer(s.queue, s.buffer, frames)
        t == [s EXCEPT !.queue = f.queue, !.buffer = f.buffer]
        n == Len(s.queue) - Len(f.queue)
    IN  IF f.raised
        THEN [sink |-> t, out |-> Unfilled, real |-> 0, popped |-> n, raised |-> TRUE]
        ELSE IF Len(f.buffer) >= frames
        THEN [sink |-> [t EXCEPT !.buffer = SubSeq(f.buffer, frames + 1, Len(f.buffer))],
              out |-> SubSeq(f.buffer, 1, frames), real |-> frames,
              popped |-> n, raised |-> FALSE]
        ELSE [sink |-> [t EXCEPT !.buffer = << >>],
              out |-> f.buffer \o Zeros(frames - Len(f.buffer)),
              real |-> Len(f.buffer), popped |-> n, raised |-> FALSE]

\* every sample still to be emitted: the buffer, then the decodable chunks
RECURSIVE DecodeQueue(_)
DecodeQueue(q) ==
    IF q = << >> THEN << >>
    ELSE (IF DecodeRaises(Head(q)) THEN << >> ELSE DecodeInt16(Head(q)))
         \o DecodeQueue(Tail(q))

(***************************************************************************)
(* State.                                                                  *)
(***************************************************************************)
VARIABLES
    sink,       \* the AudioPlayer's fields
    outdata,    \* the block the last callback tick wrote
    tick,       \* the last callback tick: [frames, raised, real, popped]
    lastOp,     \* SpecSink: the last call made on the sink
    pre,        \* SpecSink: the sink before that call
    hist,       \* SpecSink: the client's last three calls, oldest first
    purged,     \* SpecSink: the last stop() found audio in queue or buffer
    accepted,   \* SpecSink: samples play() enqueued since the last start()
    emitted,    \* SpecSink: audio samples emitted since the last start()
    generation_id,  \* ConversationState.generation_id
    lock,       \* ConversationState.lock: [locked, waiters, done]
    pc,         \* where each thread is: [Threads -> label]
    tmp,        \* per thread, the value new_generation() holds in hand
    returned,   \* values returned by new_generation(), in order of return
    count,      \* [turns, interrupts]: speak() and interrupt() calls so far;
                \* cut: an interrupt() began ("begun") and returned ("done")
                \* during the speak() call in progress
    orch,       \* locals of the running process_text()/finalize() call
    pass,       \* what that call has done so far (history)
    process,    \* TTSProvider.process: 0 for None, or the worker's number
    spawned,    \* SpecProv: workers started so far, numbered 1..spawned
    alive,      \* SpecProv: the workers still running
    plock,      \* TTSProvider.lock: 0 when free, or its holder
    req,        \* SpecProv: per stream() generator, where it is and what it did
    lastEnd,    \* SpecProv: how the last provider call to finish ended
    streams,    \* SpecProv: stream() calls made so far
    stdout,     \* SpecProv: the blocks in the worker's output not yet read,
                \* each the number of the stream() call whose text it renders
    planner,    \* the SpeechPlanner's fields: [buffer]
    fed,        \* SpecPlan: the tokens fed so far, in order
    emittedActions, \* SpecPlan: the actions returned so far, in order
    lastCall,   \* SpecPlan: the last planner call: [op, before, token, result]
    turns,      \* SpecPlan: finalize() calls made so far
    cb,         \* SpecWait: the callback thread inside a tick: [pc, pcm_chunk]
    waiter,     \* SpecWait: the thread in wait_until_done: [pc, timed_out,
                \* pending]
    turn,       \* SpecTurns: per speak() task, where it is and its locals
    loop,       \* SpecTurns: the task the event loop is running, or "none"
    qgen,       \* SpecTurns: for each chunk in the queue, the generation of
                \* the pass that enqueued it
    harm        \* SpecTurns: what a stop() of an older turn did to the
                \* current one: [purged, dropped, cut], and the turn that
                \* started the sink: [starter]

sinkVars == <<sink, outdata, tick>>
clientVars == <<lastOp, pre, hist, purged, accepted, emitted>>
genVars == <<generation_id, lock, tmp, returned>>
orchVars == <<generation_id, lock, pc, tmp, returned, count, orch, pass>>
provVars == <<process, spawned, alive, plock, req, lastEnd, streams, stdout>>
planVars == <<planner, fed, emittedActions, lastCall, turns>>
waitVars == <<cb, waiter>>
turnVars == <<turn, loop, qgen, harm>>
vars == <<sink, outdata, tick, lastOp, pre, hist, purged, accepted, emitted,
          generation_id, lock, pc, tmp, returned, count, orch, pass,
          process, spawned, alive, plock, req, lastEnd, streams, stdout,
          planner, fed, emittedActions, lastCall, turns, cb, waiter,
          turn, loop, qgen, harm>>

NoTick == [frames |-> 0, raised |-> FALSE, real |-> 0, popped |-> 0]

(***************************************************************************)
(* TTSClient, ConversationState and TTSOrchestrator after construction.    *)
(* Two threads use them: "speak" runs TTSClient.speak on its event loop,   *)
(* "interrupt" runs TTSClient.interrupt, which starts an event loop of its *)
(* own with asyncio.run.                                                   *)
(***************************************************************************)
Threads == {"speak", "interrupt"}

\* SpeechAction(type, content)
Speech(text) == [type |-> "speech", content |-> text]
Pause(ms) == [type |-> "pause", content |-> ms]
Clip(name) == [type |-> "audio", content |-> name]

\* what SpeechPlanner.feed returns to process_text: nothing, or the actions
\* of the lines flushed
FeedResults ==
    { << >>,
      <<Speech("Hi")>>,
      <<Speech("Hi."), Pause("300")>>,
      <<Clip("laugh_short_1"), Pause("150")>>,
      <<Clip("laugh_soft_1"), Pause("150")>>,
      <<Speech("Hi."), Pause("300"), Speech("yo")>> }

\* what SpeechPlanner.finalize returns to finalize
FinalizeResults == { << >>, <<Speech("tail")>> }

\* TTSOrchestrator._load_audio_clips: the clips found in assets/audio
audio_clips == [laugh_short_1 |-> <<2, 0, 255, 255>>]

\* the blocks TTSProvider.stream reads from the worker
ProviderChunks == { <<1, 0>> }

NoChunk == [pcm |-> << >>, generation_id |-> 0]

\* no process_text()/finalize() call is running
IdleOrch ==
    [current_generation_id |-> 0, actions |-> << >>, i |-> 0, left |-> 0,
     chunk |-> NoChunk, fin |-> FALSE, texts |-> 0]

NoPass ==
    [dispatched |-> << >>, staleAt |-> 0, chunkStale |-> 0,
     stopped |-> FALSE, ended |-> FALSE]

\* ConversationState.__init__ and the two threads at rest
InitClientState ==
    /\ generation_id = 0
    /\ lock = [locked |-> FALSE, waiters |-> << >>, done |-> {}]
    /\ pc = [t \in Threads |-> "idle"]
    /\ tmp = [t \in Threads |-> 0]
    /\ returned = << >>
    /\ count = [turns |-> 0, interrupts |-> 0, cut |-> "no"]
    /\ orch = IdleOrch
    /\ pass = NoPass

(***************************************************************************)
(* TTSProvider and SpeechPlanner after construction.                       *)
(***************************************************************************)
\* the stream() generators that may be in progress at once
Gens == {"g1", "g2"}

\* a generator not yet called, with what is recorded of a call:
\*   yielded   chunks yielded so far        wrote      the text was written
\*   attempts  Popen calls at line 61       restarts   Popen calls at line 65
\*   deadAtPoll, stillDead  the outcomes of the polls at lines 63 and 66
\*   ioFailed, killed       the except clause ran, and the worker it killed
\*   after     how the provider call before this one ended
\*   call      the number of the call, 1 for the first stream() call made
\*   foreign   a chunk yielded held a block of another call's text
IdleReq ==
    [pc |-> "idle", yielded |-> 0, wrote |-> FALSE, attempts |-> 0,
     restarts |-> 0, deadAtPoll |-> FALSE, stillDead |-> FALSE,
     ioFailed |-> FALSE, killed |-> 0, after |-> "none", call |-> 0,
     foreign |-> FALSE]

\* TTSProvider.__init__
InitProviderState ==
    /\ process = 0
    /\ spawned = 0
    /\ alive = {}
    /\ plock = "free"
    /\ req = [g \in Gens |-> IdleReq]
    /\ lastEnd = "none"
    /\ streams = 0
    /\ stdout = << >>

\* no call of the planner yet; flushed tells whether a call ran _flush
NoCall ==
    [op |-> "none", before |-> << >>, token |-> << >>, result |-> << >>,
     flushed |-> FALSE]

\* SpeechPlanner.__init__
InitPlannerState ==
    /\ planner = [buffer |-> << >>]
    /\ fed = << >>
    /\ emittedActions = << >>
    /\ lastCall = NoCall
    /\ turns = 0

\* the callback thread between two ticks; a thread not in wait_until_done
NoTickInProgress == [pc |-> "idle", pcm_chunk |-> << >>]
NotWaiting == [pc |-> "idle", timed_out |-> FALSE, pending |-> 0]

InitWaitState ==
    /\ cb = NoTickInProgress
    /\ waiter = NotWaiting

\* the speak() tasks of two conversation turns
Tasks == {"t1", "t2"}

\* a speak() call not yet made
NoTurn ==
    [pc |-> "idle", born |-> 0, current_generation_id |-> 0,
     actions |-> << >>, i |-> 0, texts |-> 0, fin |-> FALSE]

NoHarm == [purged |-> FALSE, dropped |-> FALSE, cut |-> 0, starter |-> 0]

InitTurnState ==
    /\ turn = [t \in Tasks |-> NoTurn]
    /\ loop = "none"
    /\ qgen = << >>
    /\ harm = NoHarm

(***************************************************************************)
(* SpecSink: one client thread and the backend's callback thread.          *)
(***************************************************************************)
InitSink ==
    /\ sink = NewSink
    /\ outdata = Unfilled
    /\ tick = NoTick
    /\ lastOp = "init"
    /\ pre = NewSink
    /\ hist = << >>
    /\ purged = FALSE
    /\ accepted = << >>
    /\ emitted = << >>
    /\ InitClientState
    /\ InitProviderState
    /\ InitPlannerState
    /\ InitWaitState
    /\ InitTurnState

\* the client calls play(chunk)
ClientPlay(chunk) ==
    /\ Len(sink.queue) < MaxQueue
    /\ Len(accepted) + Len(chunk) \div 2 <= MaxAccepted
    /\ sink' = SinkPlay(sink, chunk)
    /\ lastOp' = "play"
    /\ pre' = sink
    /\ hist' = LastN(Append(hist, "play"), 3)
    /\ accepted' = IF sink'.queue # sink.queue /\ ~DecodeRaises(chunk)
                   THEN accepted \o DecodeInt16(chunk) ELSE accepted
    /\ UNCHANGED <<outdata, tick, purged, emitted>>
    /\ UNCHANGED <<orchVars, provVars, planVars, waitVars, turnVars>>

\* the client calls start()
ClientStart ==
    /\ sink' = SinkStart(sink)
    /\ lastOp' = "start"
    /\ pre' = sink
    /\ hist' = LastN(Append(hist, "start"), 3)
    /\ accepted' = IF sink.is_playing THEN accepted ELSE << >>
    /\ emitted' = IF sink.is_playing THEN emitted ELSE << >>
    /\ UNCHANGED <<outdata, tick, purged>>
    /\ UNCHANGED <<orchVars, provVars, planVars, waitVars, turnVars>>

\* the client calls stop()
ClientStop ==
    /\ sink' = SinkStop(sink)
    /\ lastOp' = "stop"
    /\ pre' = sink
    /\ hist' = LastN(Append(hist, "stop"), 3)
    /\ purged' = (sink.queue # << >> \/ sink.buffer # << >>)
    /\ accepted' = << >>
    /\ emitted' = << >>
    /\ UNCHANGED <<outdata, tick>>
    /\ UNCHANGED <<orchVars, provVars, planVars, waitVars, turnVars>>

\* the backend calls _audio_callback(outdata, frames, ...) on an open stream
AudioCallback ==
    /\ sink.stream
    /\ LET r == SinkCallback(sink, Blocksize)
       IN  /\ sink' = r.sink
           /\ outdata' = r.out
           /\ tick' = [frames |-> Blocksize, raised |-> r.raised,
                       real |-> r.real, popped |-> r.popped]
           /\ emitted' = emitted \o SubSeq(r.out, 1, r.real)
    /\ lastOp' = "callback"
    /\ pre' = sink
    /\ UNCHANGED <<hist, purged, accepted>>
    /\ UNCHANGED <<orchVars, provVars, planVars, waitVars, turnVars>>

NextSink ==
    \/ \E chunk \in PcmChunks : ClientPlay(chunk)
    \/ ClientStart
    \/ ClientStop
    \/ AudioCallback

SpecSink == InitSink /\ [][NextSink]_vars

(***************************************************************************)
(* Properties of the sink, checked under SpecSink.                         *)
(***************************************************************************)
StoppedSink ==
    [is_playing |-> FALSE, stream |-> FALSE, open |-> 0,
     queue |-> << >>, buffer |-> << >>]

FreshlyStartedSink ==
    [is_playing |-> TRUE, stream |-> TRUE, open |-> 1,
     queue |-> << >>, buffer |-> << >>]

\* C5: after stop(), play(), start() in that order the queue and the buffer
\* are empty, and whatever the callback emits after a start() was enqueued
\* by a play() made after that start().
C5_NoResidualAfterRestart ==
    /\ hist = <<"stop", "play", "start">> /\ lastOp = "start"
          => sink.queue = << >> /\ sink.buffer = << >>
    /\ IsPrefix(emitted, accepted)

\* C5 witness: the stop() purged pending audio, then play() and start() ran.
C5_Witness ==
    /\ hist = <<"stop", "play", "start">>
    /\ lastOp = "start"
    /\ purged
    /\ sink.is_playing

\* C6: every callback tick returns without raising and writes exactly
\* `frames` samples: the first `frames` of buffer-plus-queue when that many
\* are available (the rest is kept), else all of them followed by zeros,
\* leaving nothing behind.
C6_CallbackFillsBlock ==
    lastOp = "callback" =>
        LET avail == pre.buffer \o DecodeQueue(pre.queue)
            left  == sink.buffer \o DecodeQueue(sink.queue)
        IN  /\ ~tick.raised
            /\ Len(outdata) = tick.frames
            /\ IF Len(avail) >= tick.frames
               THEN /\ outdata = SubSeq(avail, 1, tick.frames)
                    /\ left = SubSeq(avail, tick.frames + 1, Len(avail))
               ELSE /\ outdata = avail \o Zeros(tick.frames - Len(avail))
                    /\ sink.buffer = << >>
                    /\ sink.queue = << >>

\* C7: a tick that takes a chunk of odd byte length off the queue returns
\* without raising and writes a full block.
C7_OddChunkHandled ==
    (/\ lastOp = "callback"
     /\ \E i \in 1..tick.popped : DecodeRaises(pre.queue[i]))
        => ~tick.raised /\ Len(outdata) = tick.frames

\* C8: play() on a sink that is not started leaves the sink exactly as it was.
C8_PlayDroppedWhenNotStarted ==
    lastOp = "play" /\ ~pre.is_playing => sink = pre

\* C8 witness: a play() made after a stop() on a sink that had been started.
C8_Witness ==
    /\ lastOp = "play"
    /\ ~pre.is_playing
    /\ Len(hist) = 3 /\ hist[1] = "start" /\ hist[2] = "stop"
    /\ sink = StoppedSink

\* C9: after stop() the sink is not started, has no stream, and queue and
\* buffer are empty; a stop() right after a stop() changes nothing.
C9_StopHardCutIdempotent ==
    lastOp = "stop" =>
        /\ sink = StoppedSink
        /\ SinkStop(sink) = sink
        /\ (Len(hist) >= 2 /\ hist[Len(hist) - 1] = "stop" => sink = pre)

\* C9 witness: a stop() on a started sink with audio in queue and buffer.
C9_Witness ==
    /\ lastOp = "stop"
    /\ pre.is_playing /\ pre.stream
    /\ pre.queue # << >> /\ pre.buffer # << >>

\* C10: start() on a started sink changes nothing; on a sink that is not
\* started it empties queue and buffer and opens exactly one stream.
C10_StartIdempotent ==
    lastOp = "start" =>
        IF pre.is_playing THEN sink = pre
        ELSE sink = FreshlyStartedSink /\ sink.open = pre.open + 1

\* C10 witness: start() on a started sink holding queued and buffered audio.
C10_Witness ==
    /\ lastOp = "start"
    /\ pre.is_playing
    /\ pre.queue # << >> /\ pre.buffer # << >>
    /\ sink.open = 1

(***************************************************************************)
(* SpecWait: the sink with the callback taken statement by statement.  One *)
(* thread calls start(), play() and then wait_until_done(), as finalize()  *)
(* does after the actions of a turn; the backend's thread runs             *)
(* _audio_callback.  Neither the callback nor wait_until_done takes        *)
(* self.lock, so the steps of the two interleave.                          *)
(***************************************************************************)
\* _audio_callback, lines 45-55, on the buffer as it stands
EmitBlock(s, frames) ==
    LET r == SinkCallback([s EXCEPT !.queue = << >>], frames)
    IN  [r EXCEPT !.sink.queue = s.queue]

\* the thread calls start(), before it waits
WaitStart ==
    /\ waiter.pc = "idle"
    /\ ClientStart

\* the thread calls play(chunk), before it waits
WaitPlay(chunk) ==
    /\ waiter.pc = "idle"
    /\ ClientPlay(chunk)

\* the backend calls _audio_callback on an open stream
CbBegin ==
    /\ cb.pc = "idle"
    /\ sink.stream
    /\ cb' = [cb EXCEPT !.pc = "loop"]
    /\ UNCHANGED <<sinkVars, clientVars, waiter>>
    /\ UNCHANGED <<orchVars, provVars, planVars, turnVars>>

\* lines 34-36 and 41-42: the loop test, and get_nowait()
CbGet ==
    /\ cb.pc = "loop"
    /\ IF Len(sink.buffer) < Blocksize /\ sink.queue # << >>
       THEN /\ cb' = [pc |-> "decode", pcm_chunk |-> Head(sink.queue)]
            /\ sink' = [sink EXCEPT !.queue = Tail(@)]
       ELSE /\ cb' = [cb EXCEPT !.pc = "fill"]
            /\ UNCHANGED sink
    /\ UNCHANGED <<outdata, tick, clientVars, waiter>>
    /\ UNCHANGED <<orchVars, provVars, planVars, turnVars>>

\* lines 38-40: decode the chunk in hand and append it to self.buffer;
\* np.frombuffer raises on a chunk of odd length and the tick ends
CbDecode ==
    /\ cb.pc = "decode"
    /\ IF DecodeRaises(cb.pcm_chunk)
       THEN /\ cb' = NoTickInProgress
            /\ outdata' = Unfilled
            /\ tick' = [frames |-> Blocksize, raised |-> TRUE,
                        real |-> 0, popped |-> 1]
            /\ UNCHANGED sink
       ELSE /\ cb' = [pc |-> "loop", pcm_chunk |-> << >>]
            /\ sink' = [sink EXCEPT
                            !.buffer = @ \o DecodeInt16(cb.pcm_chunk)]
            /\ UNCHANGED <<outdata, tick>>
    /\ UNCHANGED <<clientVars, waiter>>
    /\ UNCHANGED <<orchVars, provVars, planVars, turnVars>>

\* lines 45-55: write the block and keep the rest of the buffer
CbFill ==
    /\ cb.pc = "fill"
    /\ LET r == EmitBlock(sink, Blocksize)
       IN  /\ sink' = r.sink
           /\ outdata' = r.out
           /\ tick' = [frames |-> Blocksize, raised |-> FALSE,
                       real |-> r.real, popped |-> 0]
           /\ emitted' = emitted \o SubSeq(r.out, 1, r.real)
    /\ cb' = NoTickInProgress
    /\ UNCHANGED <<lastOp, pre, hist, purged, accepted, waiter>>
    /\ UNCHANGED <<orchVars, provVars, planVars, turnVars>>

\* the thread calls wait_until_done()
WaitCall ==
    /\ waiter.pc = "idle"
    /\ sink.is_playing
    /\ waiter' = [waiter EXCEPT !.pc = "test_queue"]
    /\ UNCHANGED <<sinkVars, clientVars, cb>>
    /\ UNCHANGED <<orchVars, provVars, planVars, turnVars>>

\* line 116, left operand: not self.audio_queue.empty()
WaitTestQueue ==
    /\ waiter.pc = "test_queue"
    /\ waiter' = [waiter EXCEPT
                      !.pc = IF sink.queue # << >> THEN "in_loop"
                             ELSE "test_buffer"]
    /\ UNCHANGED <<sinkVars, clientVars, cb>>
    /\ UNCHANGED <<orchVars, provVars, planVars, turnVars>>

\* line 116, right operand: len(self.buffer) > 0; when it is false too the
\* loop ends, and `pending` records how many accepted samples are not emitted
WaitTestBuffer ==
    /\ waiter.pc = "test_buffer"
    /\ waiter' = IF Len(sink.buffer) > 0
                 THEN [waiter EXCEPT !.pc = "in_loop"]
                 ELSE [waiter EXCEPT !.pc = "last_sleep",
                                     !.pending = Len(accepted) - Len(emitted)]
    /\ UNCHANGED <<sinkVars, clientVars, cb>>
    /\ UNCHANGED <<orchVars, provVars, planVars, turnVars>>

\* lines 117-119: break when the timeout has passed, else sleep and test again
WaitPoll ==
    /\ waiter.pc = "in_loop"
    /\ \/ waiter' = [waiter EXCEPT !.pc = "last_sleep", !.timed_out = TRUE,
                                   !.pending = Len(accepted) - Len(emitted)]
       \/ waiter' = [waiter EXCEPT !.pc = "test_queue"]
    /\ UNCHANGED <<sinkVars, clientVars, cb>>
    /\ UNCHANGED <<orchVars, provVars, planVars, turnVars>>

\* line 120: time.sleep(0.2), and wait_until_done returns
WaitReturn ==
    /\ waiter.pc = "last_sleep"
    /\ waiter' = [waiter EXCEPT !.pc = "done"]
    /\ UNCHANGED <<sinkVars, clientVars, cb>>
    /\ UNCHANGED <<orchVars, provVars, planVars, turnVars>>

CallbackTick == CbBegin \/ CbGet \/ CbDecode \/ CbFill

NextWait ==
    \/ WaitStart
    \/ \E chunk \in PcmChunks : WaitPlay(chunk)
    \/ CbBegin
    \/ CbGet
    \/ CbDecode
    \/ CbFill
    \/ WaitCall
    \/ WaitTestQueue
    \/ WaitTestBuffer
    \/ WaitPoll
    \/ WaitReturn

\* the backend goes on calling the callback, and a tick runs to its end
SpecWait == InitSink /\ [][NextWait]_vars /\ WF_vars(CallbackTick)

\* C27, under SpecWait: when wait_until_done finds queue and buffer empty,
\* every sample that play() accepted has been emitted.
C27_DoneMeansPlayedOut ==
    waiter.pc \in {"last_sleep", "done"} /\ ~waiter.timed_out
        => waiter.pending = 0

(***************************************************************************)
(* ConversationState.new_generation, run by thread t.  The lock is an      *)
(* asyncio.Lock: its acquire tests _locked and then sets it, with nothing  *)
(* to keep a second thread from doing the same in between, and an acquire  *)
(* that finds it taken waits for release() to complete its future.         *)
(* `self.generation_id += 1` is a load followed by a store, and the return *)
(* statement loads the attribute again.                                    *)
(***************************************************************************)
\* line 23, acquire(): the lock is free and nobody waits, or else wait
NGTest(t) ==
    /\ pc[t] = "ng_test"
    /\ IF ~lock.locked /\ lock.waiters = << >>
       THEN /\ pc' = [pc EXCEPT ![t] = "ng_set"]
            /\ UNCHANGED lock
       ELSE /\ pc' = [pc EXCEPT ![t] = "ng_wait"]
            /\ lock' = [lock EXCEPT !.waiters = Append(@, t)]
    /\ UNCHANGED <<generation_id, tmp, returned, count, orch, pass>>
    /\ UNCHANGED <<sinkVars, clientVars, provVars, planVars, waitVars, turnVars>>

\* line 23, acquire(): self._locked = True
NGSet(t) ==
    /\ pc[t] = "ng_set"
    /\ lock' = [lock EXCEPT !.locked = TRUE]
    /\ pc' = [pc EXCEPT ![t] = "ng_load"]
    /\ UNCHANGED <<generation_id, tmp, returned, count, orch, pass>>
    /\ UNCHANGED <<sinkVars, clientVars, provVars, planVars, waitVars, turnVars>>

\* line 23, acquire(): the future awaited is done; take the lock
NGWoken(t) ==
    /\ pc[t] = "ng_wait"
    /\ t \in lock.done
    /\ lock' = [locked |-> TRUE,
                waiters |-> SelectSeq(lock.waiters, LAMBDA w : w # t),
                done |-> lock.done \ {t}]
    /\ pc' = [pc EXCEPT ![t] = "ng_load"]
    /\ UNCHANGED <<generation_id, tmp, returned, count, orch, pass>>
    /\ UNCHANGED <<sinkVars, clientVars, provVars, planVars, waitVars, turnVars>>

\* line 24: load self.generation_id
NGLoad(t) ==
    /\ pc[t] = "ng_load"
    /\ tmp' = [tmp EXCEPT ![t] = generation_id]
    /\ pc' = [pc EXCEPT ![t] = "ng_store"]
    /\ UNCHANGED <<generation_id, lock, returned, count, orch, pass>>
    /\ UNCHANGED <<sinkVars, clientVars, provVars, planVars, waitVars, turnVars>>

\* line 24: store the loaded value plus one
NGStore(t) ==
    /\ pc[t] = "ng_store"
    /\ generation_id' = tmp[t] + 1
    /\ pc' = [pc EXCEPT ![t] = "ng_return"]
    /\ UNCHANGED <<lock, tmp, returned, count, orch, pass>>
    /\ UNCHANGED <<sinkVars, clientVars, provVars, planVars, waitVars, turnVars>>

\* line 25: load self.generation_id as the value to return
NGReturn(t) ==
    /\ pc[t] = "ng_return"
    /\ tmp' = [tmp EXCEPT ![t] = generation_id]
    /\ pc' = [pc EXCEPT ![t] = "ng_release"]
    /\ UNCHANGED <<generation_id, lock, returned, count, orch, pass>>
    /\ UNCHANGED <<sinkVars, clientVars, provVars, planVars, waitVars, turnVars>>

\* leaving `async with`: release() frees the lock and completes the first
\* waiter's future, and the call returns; release() of a lock that is not
\* held raises RuntimeError, which ends the caller's speak() or interrupt()
NGRelease(t) ==
    /\ pc[t] = "ng_release"
    /\ IF lock.locked
       THEN /\ lock' = [lock EXCEPT
                   !.locked = FALSE,
                   !.done = IF lock.waiters = << >> THEN @
                            ELSE @ \cup {Head(lock.waiters)}]
            /\ returned' = Append(returned, tmp[t])
            /\ pc' = [pc EXCEPT ![t] = IF t = "speak" THEN "sp_stop" ELSE "in_stop"]
       ELSE /\ pc' = [pc EXCEPT ![t] = "idle"]
            /\ UNCHANGED <<lock, returned>>
    /\ tmp' = [tmp EXCEPT ![t] = 0]
    /\ UNCHANGED <<generation_id, count, orch, pass>>
    /\ UNCHANGED <<sinkVars, clientVars, provVars, planVars, waitVars, turnVars>>

NewGeneration(t) ==
    \/ NGTest(t)
    \/ NGSet(t)
    \/ NGWoken(t)
    \/ NGLoad(t)
    \/ NGStore(t)
    \/ NGReturn(t)
    \/ NGRelease(t)

InNewGeneration(t) ==
    pc[t] \in {"ng_test", "ng_set", "ng_wait", "ng_load", "ng_store",
               "ng_return", "ng_release"}

(***************************************************************************)
(* TTSClient.interrupt on the "interrupt" thread.                          *)
(***************************************************************************)
\* interrupt(), line 71: asyncio.run(self.state.new_generation())
Interrupt ==
    /\ pc["interrupt"] = "idle"
    /\ count.interrupts < MaxInterrupts
    /\ pc' = [pc EXCEPT !["interrupt"] = "ng_test"]
    /\ count' = [count EXCEPT
                   !.interrupts = @ + 1,
                   !.cut = IF pc["speak"] # "idle" THEN "begun" ELSE "no"]
    /\ UNCHANGED <<generation_id, lock, tmp, returned, orch, pass>>
    /\ UNCHANGED <<sinkVars, clientVars, provVars, planVars, waitVars, turnVars>>

\* interrupt(), line 72: self.audio_player.stop()
InterruptStop ==
    /\ pc["interrupt"] = "in_stop"
    /\ sink' = SinkStop(sink)
    /\ pc' = [pc EXCEPT !["interrupt"] = "idle"]
    /\ count' = [count EXCEPT
                   !.cut = IF @ = "begun" /\ pc["speak"] # "idle"
                           THEN "done" ELSE @]
    /\ UNCHANGED <<generation_id, lock, tmp, returned, orch, pass>>
    /\ UNCHANGED <<outdata, tick, clientVars, provVars, planVars, waitVars, turnVars>>

(***************************************************************************)
(* TTSClient.speak on the "speak" thread.                                  *)
(***************************************************************************)
\* speak(), line 52: await self.state.new_generation()
Speak ==
    /\ pc["speak"] = "idle"
    /\ count.turns < MaxTurns
    /\ pc' = [pc EXCEPT !["speak"] = "ng_test"]
    /\ count' = [count EXCEPT !.turns = @ + 1, !.cut = "no"]
    /\ orch' = IdleOrch
    /\ pass' = NoPass
    /\ UNCHANGED <<generation_id, lock, tmp, returned>>
    /\ UNCHANGED <<sinkVars, clientVars, provVars, planVars, waitVars, turnVars>>

\* speak(), line 53: self.audio_player.stop()
SpeakStop ==
    /\ pc["speak"] = "sp_stop"
    /\ sink' = SinkStop(sink)
    /\ pc' = [pc EXCEPT !["speak"] = "sp_next"]
    /\ UNCHANGED <<generation_id, lock, tmp, returned, count, orch, pass>>
    /\ UNCHANGED <<outdata, tick, clientVars, provVars, planVars, waitVars, turnVars>>

\* speak(), lines 55-57: the text stream yields a non-empty chunk
SpeakNextText ==
    /\ pc["speak"] = "sp_next"
    /\ orch.texts < MaxTexts
    /\ orch' = [orch EXCEPT !.texts = @ + 1]
    /\ pc' = [pc EXCEPT !["speak"] = "pt_capture"]
    /\ UNCHANGED <<generation_id, lock, tmp, returned, count, pass>>
    /\ UNCHANGED <<sinkVars, clientVars, provVars, planVars, waitVars, turnVars>>

\* speak(), line 60: the text stream has ended
SpeakEndOfStream ==
    /\ pc["speak"] = "sp_next"
    /\ pc' = [pc EXCEPT !["speak"] = "fin_capture"]
    /\ UNCHANGED <<generation_id, lock, tmp, returned, count, orch, pass>>
    /\ UNCHANGED <<sinkVars, clientVars, provVars, planVars, waitVars, turnVars>>

(***************************************************************************)
(* TTSOrchestrator.process_text and finalize.                              *)
(***************************************************************************)
\* process_text(), line 71: current_generation_id = self.state.generation_id
ProcessTextCapture ==
    /\ pc["speak"] = "pt_capture"
    /\ orch' = [orch EXCEPT !.current_generation_id = generation_id,
                            !.actions = << >>, !.i = 0, !.fin = FALSE]
    /\ pass' = NoPass
    /\ pc' = [pc EXCEPT !["speak"] = "pt_start"]
    /\ UNCHANGED <<generation_id, lock, tmp, returned, count>>
    /\ UNCHANGED <<sinkVars, clientVars, provVars, planVars, waitVars, turnVars>>

\* process_text(), lines 72-76: start the sink, feed the planner, and enter
\* _execute_actions with what it returned
ProcessTextStart ==
    /\ pc["speak"] = "pt_start"
    /\ sink' = SinkStart(sink)
    /\ \E acts \in FeedResults :
           orch' = [orch EXCEPT !.actions = acts, !.i = 1]
    /\ pc' = [pc EXCEPT !["speak"] = "ea_check"]
    /\ UNCHANGED <<generation_id, lock, tmp, returned, count, pass>>
    /\ UNCHANGED <<outdata, tick, clientVars, provVars, planVars, waitVars, turnVars>>

\* finalize(), lines 80-82: capture the generation, take the planner's tail,
\* and enter _execute_actions
FinalizeCapture ==
    /\ pc["speak"] = "fin_capture"
    /\ \E acts \in FinalizeResults :
           orch' = [orch EXCEPT !.current_generation_id = generation_id,
                                !.actions = acts, !.i = 1, !.fin = TRUE]
    /\ pass' = NoPass
    /\ pc' = [pc EXCEPT !["speak"] = "ea_check"]
    /\ UNCHANGED <<generation_id, lock, tmp, returned, count>>
    /\ UNCHANGED <<sinkVars, clientVars, provVars, planVars, waitVars, turnVars>>

\* finalize(), line 84: wait_until_done returns, the queue and buffer being
\* empty or the timeout having passed
FinalizeWait ==
    /\ pc["speak"] = "fin_wait"
    /\ pc' = [pc EXCEPT !["speak"] = "fin_stop"]
    /\ UNCHANGED <<generation_id, lock, tmp, returned, count, orch, pass>>
    /\ UNCHANGED <<sinkVars, clientVars, provVars, planVars, waitVars, turnVars>>

\* finalize(), line 85: self.audio_player.stop(); speak() returns
FinalizeForgetsStop ==
    /\ pc["speak"] = "fin_stop"
    /\ pass' = [pass EXCEPT !.stopped = TRUE, !.ended = TRUE]
    /\ pc' = [pc EXCEPT !["speak"] = "idle"]
    /\ UNCHANGED <<generation_id, lock, tmp, returned, count, orch>>
    /\ UNCHANGED <<sinkVars, clientVars, provVars, planVars, waitVars, turnVars>>
FinalizeStop ==
    /\ pc["speak"] = "fin_stop"
    /\ sink' = SinkStop(sink)
    /\ pass' = [pass EXCEPT !.stopped = TRUE, !.ended = TRUE]
    /\ pc' = [pc EXCEPT !["speak"] = "idle"]
    /\ UNCHANGED <<generation_id, lock, tmp, returned, count, orch>>
    /\ UNCHANGED <<outdata, tick, clientVars, provVars, planVars, waitVars, turnVars>>

(***************************************************************************)
(* TTSOrchestrator._execute_actions and the action handlers.               *)
(***************************************************************************)
\* where _execute_actions returns to: finalize() line 84, or out of
\* process_text() into speak()'s loop
AfterExecute == IF orch.fin THEN "fin_wait" ELSE "sp_next"

\* _execute_actions returns
ReturnFromExecute(stoppedNow) ==
    /\ pc' = [pc EXCEPT !["speak"] = AfterExecute]
    /\ pass' = [pass EXCEPT !.stopped = @ \/ stoppedNow,
                            !.ended = ~orch.fin]

\* lines 91-93: take the next action, if any, and compare the generations
ExecuteCheckNoReturn ==
    /\ pc["speak"] = "ea_check"
    /\ IF orch.i > Len(orch.actions)
       THEN /\ ReturnFromExecute(FALSE)
       ELSE IF generation_id # orch.current_generation_id
       THEN /\ pc' = [pc EXCEPT !["speak"] = "ea_dispatch"]
            /\ sink' = SinkStop(sink)
            /\ pass' = [pass EXCEPT !.staleAt = orch.i, !.stopped = TRUE]
       ELSE /\ pc' = [pc EXCEPT !["speak"] = "ea_dispatch"]
            /\ UNCHANGED pass
    /\ IF orch.i <= Len(orch.actions) /\ generation_id # orch.current_generation_id
       THEN UNCHANGED <<outdata, tick>>
       ELSE UNCHANGED sinkVars
    /\ UNCHANGED <<generation_id, lock, tmp, returned, count, orch>>
    /\ UNCHANGED <<clientVars, provVars, planVars, waitVars, turnVars>>
ExecuteCheck ==
    /\ pc["speak"] = "ea_check"
    /\ IF orch.i > Len(orch.actions)
       THEN /\ ReturnFromExecute(FALSE)
       ELSE IF generation_id # orch.current_generation_id
       THEN /\ pc' = [pc EXCEPT !["speak"] = "ea_stop"]
            /\ pass' = [pass EXCEPT !.staleAt = orch.i]
       ELSE /\ pc' = [pc EXCEPT !["speak"] = "ea_dispatch"]
            /\ UNCHANGED pass
    /\ UNCHANGED <<generation_id, lock, tmp, returned, count, orch>>
    /\ UNCHANGED <<sinkVars, clientVars, provVars, planVars, waitVars, turnVars>>

\* lines 95-96: self.audio_player.stop(); return
ExecuteStop ==
    /\ pc["speak"] = "ea_stop"
    /\ sink' = SinkStop(sink)
    /\ ReturnFromExecute(TRUE)
    /\ UNCHANGED <<generation_id, lock, tmp, returned, count, orch>>
    /\ UNCHANGED <<outdata, tick, clientVars, provVars, planVars, waitVars, turnVars>>

\* lines 98-103: dispatch on the action's type.  A Speech action opens
\* tts_provider.stream(content, current_generation_id), which will yield
\* some number of chunks; a Clip action looks its name up in the clip table;
\* a Pause action goes to sleep.
ExecuteDispatch ==
    /\ pc["speak"] = "ea_dispatch"
    /\ LET a == orch.actions[orch.i]
       IN  CASE a.type = "speech" ->
                  /\ \E n \in 0..MaxChunks : orch' = [orch EXCEPT !.left = n]
                  /\ pc' = [pc EXCEPT !["speak"] = "sa_next"]
             [] a.type = "audio" ->
                  IF a.content \in DOMAIN audio_clips
                  THEN /\ pc' = [pc EXCEPT !["speak"] = "aa_play"]
                       /\ UNCHANGED orch
                  ELSE /\ pc' = [pc EXCEPT !["speak"] = "ea_check"]
                       /\ orch' = [orch EXCEPT !.i = @ + 1]
             [] a.type = "pause" ->
                  /\ pc' = [pc EXCEPT !["speak"] = "pause_sleep"]
                  /\ UNCHANGED orch
    /\ pass' = [pass EXCEPT !.dispatched = Append(@, orch.i)]
    /\ UNCHANGED <<generation_id, lock, tmp, returned, count>>
    /\ UNCHANGED <<sinkVars, clientVars, provVars, planVars, waitVars, turnVars>>

\* line 103: the sleep is over; on to the next action
PauseOver ==
    /\ pc["speak"] = "pause_sleep"
    /\ orch' = [orch EXCEPT !.i = @ + 1]
    /\ pc' = [pc EXCEPT !["speak"] = "ea_check"]
    /\ UNCHANGED <<generation_id, lock, tmp, returned, count, pass>>
    /\ UNCHANGED <<sinkVars, clientVars, provVars, planVars, waitVars, turnVars>>

\* _handle_speech_action, lines 109-111: the stream yields its next chunk,
\* stamped with the generation passed to stream(), or ends
SpeechNextChunk ==
    /\ pc["speak"] = "sa_next"
    /\ IF orch.left = 0
       THEN /\ orch' = [orch EXCEPT !.i = @ + 1, !.chunk = NoChunk]
            /\ pc' = [pc EXCEPT !["speak"] = "ea_check"]
       ELSE /\ \E bytes \in ProviderChunks :
                  orch' = [orch EXCEPT
                      !.left = @ - 1,
                      !.chunk = [pcm |-> bytes,
                                 generation_id |-> orch.current_generation_id]]
            /\ pc' = [pc EXCEPT !["speak"] = "sa_check"]
    /\ UNCHANGED <<generation_id, lock, tmp, returned, count, pass>>
    /\ UNCHANGED <<sinkVars, clientVars, provVars, planVars, waitVars, turnVars>>

\* _handle_speech_action, lines 113-114: a chunk of another generation ends
\* the loop over the stream
SpeechCheckContinues ==
    /\ pc["speak"] = "sa_check"
    /\ IF orch.chunk.generation_id # generation_id
       THEN /\ pass' = [pass EXCEPT !.chunkStale = orch.i]
            /\ pc' = [pc EXCEPT !["speak"] = "sa_next"]
       ELSE /\ pc' = [pc EXCEPT !["speak"] = "sa_play"]
            /\ UNCHANGED pass
    /\ UNCHANGED <<generation_id, lock, tmp, returned, count, orch>>
    /\ UNCHANGED <<sinkVars, clientVars, provVars, planVars, waitVars, turnVars>>
SpeechCheck ==
    /\ pc["speak"] = "sa_check"
    /\ IF orch.chunk.generation_id # generation_id
       THEN /\ pass' = [pass EXCEPT !.chunkStale = orch.i]
            /\ orch' = [orch EXCEPT !.i = @ + 1, !.left = 0, !.chunk = NoChunk]
            /\ pc' = [pc EXCEPT !["speak"] = "ea_check"]
       ELSE /\ pc' = [pc EXCEPT !["speak"] = "sa_play"]
            /\ UNCHANGED <<orch, pass>>
    /\ UNCHANGED <<generation_id, lock, tmp, returned, count>>
    /\ UNCHANGED <<sinkVars, clientVars, provVars, planVars, waitVars, turnVars>>

\* line 115 calling play(), audio_player.py line 62: the chunk is handed to
\* the sink, which tests its started flag
SpeechPlay ==
    /\ pc["speak"] = "sa_play"
    /\ pc' = [pc EXCEPT !["speak"] =
                  IF PlayAccepts(sink) THEN "sa_put" ELSE "sa_next"]
    /\ UNCHANGED <<generation_id, lock, tmp, returned, count, orch, pass>>
    /\ UNCHANGED <<sinkVars, clientVars, provVars, planVars, waitVars, turnVars>>

\* audio_player.py line 63: the chunk goes on the queue
SpeechPut ==
    /\ pc["speak"] = "sa_put"
    /\ sink' = QueuePut(sink, orch.chunk.pcm)
    /\ pc' = [pc EXCEPT !["speak"] = "sa_next"]
    /\ UNCHANGED <<generation_id, lock, tmp, returned, count, orch, pass>>
    /\ UNCHANGED <<outdata, tick, clientVars, provVars, planVars, waitVars, turnVars>>

\* _handle_audio_action, line 121 calling play(), audio_player.py line 62
ClipPlay ==
    /\ pc["speak"] = "aa_play"
    /\ IF PlayAccepts(sink)
       THEN /\ pc' = [pc EXCEPT !["speak"] = "aa_put"]
            /\ UNCHANGED orch
       ELSE /\ pc' = [pc EXCEPT !["speak"] = "ea_check"]
            /\ orch' = [orch EXCEPT !.i = @ + 1]
    /\ UNCHANGED <<generation_id, lock, tmp, returned, count, pass>>
    /\ UNCHANGED <<sinkVars, clientVars, provVars, planVars, waitVars, turnVars>>

\* audio_player.py line 63: the clip goes on the queue
ClipPut ==
    /\ pc["speak"] = "aa_put"
    /\ sink' = QueuePut(sink, audio_clips[orch.actions[orch.i].content])
    /\ orch' = [orch EXCEPT !.i = @ + 1]
    /\ pc' = [pc EXCEPT !["speak"] = "ea_check"]
    /\ UNCHANGED <<generation_id, lock, tmp, returned, count, pass>>
    /\ UNCHANGED <<outdata, tick, clientVars, provVars, planVars, waitVars, turnVars>>

\* the backend calls _audio_callback on the open stream; the block written
\* and the tick's outcome are observed under SpecSink only
BackendTick ==
    /\ sink.stream
    /\ sink' = SinkCallback(sink, Blocksize).sink
    /\ UNCHANGED <<outdata, tick>>
    /\ UNCHANGED orchVars
    /\ UNCHANGED <<clientVars, provVars, planVars, waitVars, turnVars>>

(***************************************************************************)
(* SpecOrch: speak(), interrupt() and the backend's callback, interleaved. *)
(***************************************************************************)
InitOrch ==
    /\ sink = NewSink
    /\ outdata = Unfilled
    /\ tick = NoTick
    /\ lastOp = "init"
    /\ pre = NewSink
    /\ hist = << >>
    /\ purged = FALSE
    /\ accepted = << >>
    /\ emitted = << >>
    /\ InitClientState
    /\ InitProviderState
    /\ InitPlannerState
    /\ InitWaitState
    /\ InitTurnState

NextOrch ==
    \/ \E t \in Threads : NewGeneration(t)
    \/ Interrupt
    \/ InterruptStop
    \/ Speak
    \/ SpeakStop
    \/ SpeakNextText
    \/ SpeakEndOfStream
    \/ ProcessTextCapture
    \/ ProcessTextStart
    \/ FinalizeCapture
    \/ FinalizeWait
    \/ FinalizeStop
    \/ ExecuteCheck
    \/ ExecuteStop
    \/ ExecuteDispatch
    \/ PauseOver
    \/ SpeechNextChunk
    \/ SpeechCheck
    \/ SpeechPlay
    \/ SpeechPut
    \/ ClipPlay
    \/ ClipPut
    \/ BackendTick

SpecOrch == InitOrch /\ [][NextOrch]_vars

(***************************************************************************)
(* Properties of the orchestration, checked under SpecOrch.                *)
(***************************************************************************)
InSpeechLoop == pc["speak"] \in {"sa_next", "sa_check", "sa_play", "sa_put"}

InAction ==
    pc["speak"] \in {"sa_next", "sa_check", "sa_play", "sa_put",
                     "aa_play", "aa_put", "pause_sleep"}

InExecuteLoop == InAction \/ pc["speak"] \in {"ea_check", "ea_dispatch"}

\* C1: whenever a chunk or clip is handed to play(), or an action is
\* dispatched, the generation captured by its pass is not lower than the
\* live generation at that moment.
C1_NothingStaleIsPlayed ==
    [][ /\ (pc["speak"] = "sa_play" /\ pc'["speak"] # "sa_play"
              => orch.chunk.generation_id >= generation_id)
        /\ (pc["speak"] = "aa_play" /\ pc'["speak"] # "aa_play"
              => orch.current_generation_id >= generation_id)
        /\ (pc["speak"] = "ea_dispatch" /\ pc'["speak"] # "ea_dispatch"
              => orch.current_generation_id >= generation_id) ]_vars

\* C2: once every new_generation() call made has returned, the values
\* returned are exactly 1..n for the n calls made, each once, and
\* generation_id is n.
C2_GenerationsExactlyOneToN ==
    (\A t \in Threads : ~InNewGeneration(t)) =>
        LET n == count.turns + count.interrupts
        IN  /\ Len(returned) = n
            /\ \A k \in 1..n : \E j \in 1..Len(returned) : returned[j] = k
            /\ generation_id = n

\* C3 as stated: once a process_text()/finalize() call in which a chunk was
\* found stale has returned, it has called stop() on the sink.
C3_StaleChunkStopsSink ==
    pass.ended /\ pass.chunkStale # 0 => pass.stopped

\* C3 as amended: a chunk found stale ends the delivery of that Speech
\* action's chunks, and the chunk-level check calls no stop(): the call calls
\* stop() on the sink exactly when the action-level check before a later
\* action of the list finds the pass stale, or when the call is finalize();
\* a process_text() call whose last action is that Speech action returns
\* without calling stop().
C3_StaleChunkEndsDelivery ==
    /\ pass.chunkStale # 0 /\ InSpeechLoop => orch.i # pass.chunkStale
    /\ pass.chunkStale # 0 /\ pass.staleAt # 0 => pass.staleAt > pass.chunkStale
    /\ pass.ended /\ pass.chunkStale # 0 =>
           (pass.stopped <=> (pass.staleAt # 0 \/ orch.fin))

\* C3 witness: process_text() has returned; the chunks of its last Speech
\* action stopped at a stale chunk after one was enqueued, and stop() was
\* not called.
C3_Witness ==
    /\ pass.ended /\ ~orch.fin
    /\ pass.chunkStale = Len(orch.actions)
    /\ ~pass.stopped
    /\ sink.is_playing
    /\ sink.queue # << >>

\* C4: actions are dispatched in list order, one after the other; from the
\* first action found stale on, stop() is called and _execute_actions
\* returns, and no action at or after that position is dispatched.
C4_StaleActionStopsTheRest ==
    /\ \A k \in 1..Len(pass.dispatched) : pass.dispatched[k] = k
    /\ InAction =>
           /\ pass.dispatched # << >>
           /\ orch.i = pass.dispatched[Len(pass.dispatched)]
    /\ pass.staleAt # 0 =>
           /\ Len(pass.dispatched) = pass.staleAt - 1
           /\ IF pc["speak"] = "ea_stop" THEN ~pass.stopped
              ELSE pass.stopped /\ ~InExecuteLoop

\* C4 witness: the third action of a list was found stale after the first
\* two were dispatched; stop() was called and the loop has returned.
C4_Witness ==
    /\ pass.staleAt = 3
    /\ pass.dispatched = <<1, 2>>
    /\ pass.stopped /\ pass.ended
    /\ ~sink.is_playing

\* C15: finalize() calls wait_until_done and then stop() only after
\* _execute_actions has returned from the planner's tail (the list done, or
\* an action found stale), and once finalize() has returned the sink is not
\* started, has no stream, and its queue and buffer are empty.
C15_FinalizeWaitsThenStops ==
    /\ pc["speak"] \in {"fin_wait", "fin_stop"} =>
           /\ orch.fin
           /\ orch.i > Len(orch.actions) \/ pass.staleAt # 0
           /\ ~InExecuteLoop
    /\ pc["speak"] = "idle" /\ orch.fin =>
           /\ pass.ended /\ pass.stopped
           /\ sink = StoppedSink

\* C15 witness: finalize() has returned after dispatching the planner's
\* tail, a Speech action, with nothing found stale.
C15_Witness ==
    /\ pc["speak"] = "idle" /\ orch.fin /\ pass.ended
    /\ orch.actions = <<Speech("tail")>>
    /\ pass.dispatched = <<1>>
    /\ pass.staleAt = 0 /\ pass.chunkStale = 0

(***************************************************************************)
(* SpecTurns: the speak() calls of two conversation turns as tasks of one  *)
(* event loop, with the backend's callback.  A task runs until it          *)
(* suspends: speak() suspends while it waits for the next text chunk, and  *)
(* a Pause action suspends in asyncio.sleep; new_generation() on a free    *)
(* asyncio.Lock, the sink's methods and the provider's generator do not    *)
(* suspend.  All tasks share the one orchestrator, state and sink.         *)
(***************************************************************************)
\* stop() called by a turn born at generation b, the live generation being
\* `live`: when b is older, it purges the chunks the current turn enqueued
\* and cuts the sink the current turn started
HarmAfterStop(b, live) ==
    [harm EXCEPT !.purged = @ \/ (b < live /\ \E k \in 1..Len(qgen) :
                                                  qgen[k] = live),
                 !.cut = IF b < live /\ sink.is_playing /\ harm.starter = live
                         THEN live ELSE @]

\* start() called by a turn born at generation b
HarmAfterStart(b) ==
    IF sink.is_playing THEN harm
    ELSE [harm EXCEPT !.cut = 0, !.starter = b]

\* play() called by a turn born at generation b: the call is dropped when
\* an older turn's stop() has cut the sink that turn b started
HarmAfterPlay(b) ==
    [harm EXCEPT !.dropped = @ \/ (~sink.is_playing /\ harm.cut = b)]

\* speak(), lines 52-53: new_generation() and stop(); then the task waits
\* for the text stream
TaskSpeak(t) ==
    /\ turn[t].pc = "idle"
    /\ loop = "none"
    /\ generation_id' = generation_id + 1
    /\ sink' = SinkStop(sink)
    /\ qgen' = << >>
    /\ harm' = HarmAfterStop(generation_id + 1, generation_id + 1)
    /\ turn' = [turn EXCEPT ![t].pc = "await_text",
                            ![t].born = generation_id + 1]
    /\ UNCHANGED loop
    /\ UNCHANGED <<lock, pc, tmp, returned, count, orch, pass>>
    /\ UNCHANGED <<outdata, tick, clientVars, provVars, planVars, waitVars>>

\* speak(), lines 55-57: a text chunk arrives and process_text() captures
\* the generation, starts the sink and feeds the planner (lines 71-75)
TaskProcessText(t) ==
    /\ turn[t].pc = "await_text"
    /\ loop = "none"
    /\ turn[t].texts < MaxTexts
    /\ sink' = SinkStart(sink)
    /\ qgen' = IF sink.is_playing THEN qgen ELSE << >>
    /\ harm' = HarmAfterStart(turn[t].born)
    /\ \E acts \in FeedResults :
           turn' = [turn EXCEPT ![t].pc = "ea_check",
                                ![t].current_generation_id = generation_id,
                                ![t].actions = acts, ![t].i = 1,
                                ![t].texts = @ + 1]
    /\ loop' = t
    /\ UNCHANGED orchVars
    /\ UNCHANGED <<outdata, tick, clientVars, provVars, planVars, waitVars>>

\* speak(), line 60: the text stream has ended and finalize() captures the
\* generation and takes the planner's tail (lines 80-82)
TaskFinalize(t) ==
    /\ turn[t].pc = "await_text"
    /\ loop = "none"
    /\ \E acts \in FinalizeResults :
           turn' = [turn EXCEPT ![t].pc = "ea_check",
                                ![t].current_generation_id = generation_id,
                                ![t].actions = acts, ![t].i = 1,
                                ![t].fin = TRUE]
    /\ loop' = t
    /\ UNCHANGED orchVars
    /\ UNCHANGED <<sinkVars, clientVars, provVars, planVars, waitVars>>
    /\ UNCHANGED <<qgen, harm>>

\* _execute_actions returns: into finalize() line 84, or out of
\* process_text() to speak()'s wait for the next text chunk
TaskReturn(t) ==
    /\ turn' = [turn EXCEPT ![t].pc = IF turn[t].fin THEN "fin_wait"
                                      ELSE "await_text"]
    /\ loop' = IF turn[t].fin THEN t ELSE "none"

\* _execute_actions, lines 90-96: the list is done; or the pass is stale:
\* stop() and return
TaskCheck(t) ==
    /\ turn[t].pc = "ea_check"
    /\ loop = t
    /\ \/ turn[t].i > Len(turn[t].actions)
       \/ generation_id # turn[t].current_generation_id
    /\ IF turn[t].i > Len(turn[t].actions)
       THEN UNCHANGED <<sink, qgen, harm>>
       ELSE /\ sink' = SinkStop(sink)
            /\ harm' = HarmAfterStop(turn[t].born, generation_id)
            /\ qgen' = << >>
    /\ TaskReturn(t)
    /\ UNCHANGED orchVars
    /\ UNCHANGED <<outdata, tick, clientVars, provVars, planVars, waitVars>>

\* lines 98-99 and _handle_speech_action: the chunk the provider yields
\* carries the captured generation, which is the live one, and is played
TaskSpeech(t) ==
    /\ turn[t].pc = "ea_check"
    /\ loop = t
    /\ turn[t].i <= Len(turn[t].actions)
    /\ generation_id = turn[t].current_generation_id
    /\ turn[t].actions[turn[t].i].type = "speech"
    /\ \E chunk \in ProviderChunks : sink' = SinkPlay(sink, chunk)
    /\ qgen' = IF sink.is_playing THEN Append(qgen, turn[t].born) ELSE qgen
    /\ harm' = HarmAfterPlay(turn[t].born)
    /\ turn' = [turn EXCEPT ![t].i = @ + 1]
    /\ UNCHANGED loop
    /\ UNCHANGED orchVars
    /\ UNCHANGED <<outdata, tick, clientVars, provVars, planVars, waitVars>>

\* lines 100-101 and _handle_audio_action: play the clip if there is one
TaskClip(t) ==
    /\ turn[t].pc = "ea_check"
    /\ loop = t
    /\ turn[t].i <= Len(turn[t].actions)
    /\ generation_id = turn[t].current_generation_id
    /\ turn[t].actions[turn[t].i].type = "audio"
    /\ LET name == turn[t].actions[turn[t].i].content
       IN  IF name \in DOMAIN audio_clips
           THEN /\ sink' = SinkPlay(sink, audio_clips[name])
                /\ qgen' = IF sink.is_playing THEN Append(qgen, turn[t].born)
                           ELSE qgen
                /\ harm' = HarmAfterPlay(turn[t].born)
           ELSE UNCHANGED <<sink, qgen, harm>>
    /\ turn' = [turn EXCEPT ![t].i = @ + 1]
    /\ UNCHANGED loop
    /\ UNCHANGED orchVars
    /\ UNCHANGED <<outdata, tick, clientVars, provVars, planVars, waitVars>>

\* lines 102-103: a Pause action; the task suspends in asyncio.sleep
TaskPause(t) ==
    /\ turn[t].pc = "ea_check"
    /\ loop = t
    /\ turn[t].i <= Len(turn[t].actions)
    /\ generation_id = turn[t].current_generation_id
    /\ turn[t].actions[turn[t].i].type = "pause"
    /\ turn' = [turn EXCEPT ![t].pc = "pause_sleep"]
    /\ loop' = "none"
    /\ UNCHANGED orchVars
    /\ UNCHANGED <<sinkVars, clientVars, provVars, planVars, waitVars>>
    /\ UNCHANGED <<qgen, harm>>

\* line 103: the sleep is over and the loop resumes the task
TaskPauseOver(t) ==
    /\ turn[t].pc = "pause_sleep"
    /\ loop = "none"
    /\ turn' = [turn EXCEPT ![t].pc = "ea_check", ![t].i = @ + 1]
    /\ loop' = t
    /\ UNCHANGED orchVars
    /\ UNCHANGED <<sinkVars, clientVars, provVars, planVars, waitVars>>
    /\ UNCHANGED <<qgen, harm>>

\* finalize(), lines 84-85: wait_until_done() returns, the queue and buffer
\* being empty or the timeout having passed, and stop(); speak() returns
TaskFinalizeStop(t) ==
    /\ turn[t].pc = "fin_wait"
    /\ loop = t
    /\ sink' = SinkStop(sink)
    /\ harm' = HarmAfterStop(turn[t].born, generation_id)
    /\ qgen' = << >>
    /\ turn' = [turn EXCEPT ![t].pc = "done"]
    /\ loop' = "none"
    /\ UNCHANGED orchVars
    /\ UNCHANGED <<outdata, tick, clientVars, provVars, planVars, waitVars>>

\* the backend calls _audio_callback on an open stream
TaskBackendTick ==
    /\ sink.stream
    /\ LET r == SinkCallback(sink, Blocksize)
       IN  /\ sink' = r.sink
           /\ qgen' = SubSeq(qgen, r.popped + 1, Len(qgen))
    /\ UNCHANGED <<turn, loop, harm>>
    /\ UNCHANGED orchVars
    /\ UNCHANGED <<outdata, tick, clientVars, provVars, planVars, waitVars>>

NextTurns ==
    \/ \E t \in Tasks : TaskSpeak(t)
    \/ \E t \in Tasks : TaskProcessText(t)
    \/ \E t \in Tasks : TaskFinalize(t)
    \/ \E t \in Tasks : TaskCheck(t)
    \/ \E t \in Tasks : TaskSpeech(t)
    \/ \E t \in Tasks : TaskClip(t)
    \/ \E t \in Tasks : TaskPause(t)
    \/ \E t \in Tasks : TaskPauseOver(t)
    \/ \E t \in Tasks : TaskFinalizeStop(t)
    \/ TaskBackendTick

SpecTurns == InitOrch /\ [][NextTurns]_vars

\* C29, under SpecTurns: a stop() made by the turn of an older generation
\* never purges chunks that the turn of the live generation enqueued, and
\* never leaves the sink stopped when that turn calls play().
C29_OlderStopSparesNewer ==
    /\ ~harm.purged
    /\ ~harm.dropped

(***************************************************************************)
(* TTSProvider.  stream() is a generator: between two of its steps its     *)
(* consumer, other generators, stop() and the worker itself may act.  It   *)
(* holds self.lock (a threading.Lock) from line 60 until it ends, also     *)
(* while it is suspended at the yield of line 85.                          *)
(***************************************************************************)
\* _start_process, line 41: self.process and self.process.poll() is None
Running == process # 0 /\ process \in alive

\* a generator between taking and giving back self.lock
InWorker(g) ==
    req[g].pc \in {"start", "poll", "restart", "poll2", "write", "read",
                   "yielded", "abandoned"}

\* stream(...) is called and its first __anext__ starts it
StreamCall(g) ==
    /\ req[g].pc \in {"idle", "done", "raised"}
    /\ streams < MaxStreams
    /\ streams' = streams + 1
    /\ req' = [req EXCEPT ![g] = [IdleReq EXCEPT !.pc = "acquire",
                                                 !.call = streams + 1]]
    /\ UNCHANGED <<process, spawned, alive, plock, lastEnd, stdout>>
    /\ UNCHANGED <<sinkVars, clientVars, orchVars, planVars, waitVars, turnVars>>

\* line 60: with self.lock
AcquireIgnoresLock(g) ==
    /\ req[g].pc = "acquire"
    /\ plock' = g
    /\ req' = [req EXCEPT ![g].pc = "start", ![g].after = lastEnd]
    /\ UNCHANGED <<process, spawned, alive, lastEnd, streams, stdout>>
    /\ UNCHANGED <<sinkVars, clientVars, orchVars, planVars, waitVars, turnVars>>
StreamAcquire(g) ==
    /\ req[g].pc = "acquire"
    /\ plock = "free"
    /\ plock' = g
    /\ req' = [req EXCEPT ![g].pc = "start", ![g].after = lastEnd]
    /\ UNCHANGED <<process, spawned, alive, lastEnd, streams, stdout>>
    /\ UNCHANGED <<sinkVars, clientVars, orchVars, planVars, waitVars, turnVars>>

\* _start_process, lines 44-51: Popen starts a worker and the handle is set
Popen ==
    /\ spawned < MaxSpawns
    /\ spawned' = spawned + 1
    /\ alive' = alive \cup {spawned + 1}
    /\ process' = spawned + 1
    /\ stdout' = << >>

\* Popen raises OSError (the executable cannot be run, the working directory
\* is missing, no process can be created): nothing in stream() catches it at
\* lines 61 and 65, so it leaves the `with` block and reaches the consumer
PopenRaises(g) ==
    /\ plock' = "free"
    /\ lastEnd' = "raised"
    /\ UNCHANGED <<process, spawned, alive, stdout>>

\* line 61: self._start_process()
StreamStart(g) ==
    /\ req[g].pc = "start"
    /\ \/ /\ Running
          /\ req' = [req EXCEPT ![g].pc = "poll"]
          /\ UNCHANGED <<process, spawned, alive, plock, lastEnd, stdout>>
       \/ /\ ~Running
          /\ Popen
          /\ req' = [req EXCEPT ![g].pc = "poll", ![g].attempts = @ + 1]
          /\ UNCHANGED <<plock, lastEnd>>
       \/ /\ ~Running
          /\ PopenRaises(g)
          /\ req' = [req EXCEPT ![g].pc = "raised", ![g].attempts = @ + 1]
    /\ UNCHANGED streams
    /\ UNCHANGED <<sinkVars, clientVars, orchVars, planVars, waitVars, turnVars>>

\* line 63: if self.process.poll() is not None
StreamPoll(g) ==
    /\ req[g].pc = "poll"
    /\ req' = [req EXCEPT
           ![g].pc = IF process \in alive THEN "write" ELSE "restart",
           ![g].deadAtPoll = process \notin alive]
    /\ UNCHANGED <<process, spawned, alive, plock, lastEnd, streams, stdout>>
    /\ UNCHANGED <<sinkVars, clientVars, orchVars, planVars, waitVars, turnVars>>

\* line 65: self._start_process(), the worker having been found dead
StreamRestart(g) ==
    /\ req[g].pc = "restart"
    /\ \/ /\ Popen
          /\ req' = [req EXCEPT ![g].pc = "poll2", ![g].restarts = @ + 1]
          /\ UNCHANGED <<plock, lastEnd>>
       \/ /\ PopenRaises(g)
          /\ req' = [req EXCEPT ![g].pc = "raised", ![g].restarts = @ + 1,
                                ![g].stillDead = TRUE]
    /\ UNCHANGED streams
    /\ UNCHANGED <<sinkVars, clientVars, orchVars, planVars, waitVars, turnVars>>

\* lines 66-68: still dead: print and return
StreamPoll2(g) ==
    /\ req[g].pc = "poll2"
    /\ IF process \in alive
       THEN /\ req' = [req EXCEPT ![g].pc = "write"]
            /\ UNCHANGED <<plock, lastEnd>>
       ELSE /\ req' = [req EXCEPT ![g].pc = "done", ![g].stillDead = TRUE]
            /\ plock' = "free"
            /\ lastEnd' = "empty"
    /\ UNCHANGED <<process, spawned, alive, streams, stdout>>
    /\ UNCHANGED <<sinkVars, clientVars, orchVars, planVars, waitVars, turnVars>>

\* lines 87-90: the except clause: kill the worker, clear the handle; the
\* generator ends
FailKeepsHandle(g) ==
    /\ alive' = alive \ {process}
    /\ plock' = "free"
    /\ req' = [req EXCEPT ![g].pc = "done", ![g].ioFailed = TRUE,
                          ![g].killed = process]
    /\ lastEnd' = "iofail"
    /\ UNCHANGED <<process, spawned, streams, stdout>>
IoFailure(g) ==
    /\ alive' = alive \ {process}
    /\ process' = 0
    /\ stdout' = << >>
    /\ plock' = "free"
    /\ req' = [req EXCEPT ![g].pc = "done", ![g].ioFailed = TRUE,
                          ![g].killed = process]
    /\ lastEnd' = "iofail"
    /\ UNCHANGED <<spawned, streams>>

\* lines 72-73: write the text and flush, on which the worker renders the
\* text as some number of blocks on its output, after those still there
\* (the output holds MaxChunks blocks at most);
\* BrokenPipeError if the worker has died, OSError if the write fails
\* otherwise
StreamWrite(g) ==
    /\ req[g].pc = "write"
    /\ \/ /\ process \in alive
          /\ req' = [req EXCEPT ![g].pc = "read", ![g].wrote = TRUE]
          /\ \E n \in 0..(MaxChunks - Len(stdout)) :
                 stdout' = stdout \o [k \in 1..n |-> req[g].call]
          /\ UNCHANGED <<process, spawned, alive, plock, lastEnd, streams>>
       \/ IoFailure(g)
    /\ UNCHANGED <<sinkVars, clientVars, orchVars, planVars, waitVars, turnVars>>

\* lines 82-85: read up to 4096 bytes: the next block of the worker's
\* output, which is yielded; nothing, there being no more, which ends the
\* loop and the generator; or OSError
StreamRead(g) ==
    /\ req[g].pc = "read"
    /\ \/ /\ stdout # << >>
          /\ req' = [req EXCEPT
                 ![g].pc = "yielded",
                 ![g].yielded = @ + 1,
                 ![g].foreign = @ \/ Head(stdout) # req[g].call]
          /\ stdout' = Tail(stdout)
          /\ UNCHANGED <<process, spawned, alive, plock, lastEnd, streams>>
       \/ /\ stdout = << >>
          /\ req' = [req EXCEPT ![g].pc = "done"]
          /\ plock' = "free"
          /\ lastEnd' = "ended"
          /\ UNCHANGED <<process, spawned, alive, streams, stdout>>
       \/ IoFailure(g)
    /\ UNCHANGED <<sinkVars, clientVars, orchVars, planVars, waitVars, turnVars>>

\* the consumer asks for the next chunk
StreamNext(g) ==
    /\ req[g].pc = "yielded"
    /\ req' = [req EXCEPT ![g].pc = "read"]
    /\ UNCHANGED <<process, spawned, alive, plock, lastEnd, streams, stdout>>
    /\ UNCHANGED <<sinkVars, clientVars, orchVars, planVars, waitVars, turnVars>>

\* the consumer has left its loop (tts_orchestrator.py line 114) and the
\* generator is closed: GeneratorExit at the yield leaves the `with` block
StreamClose(g) ==
    /\ req[g].pc = "yielded"
    /\ req' = [req EXCEPT ![g].pc = "done"]
    /\ plock' = "free"
    /\ lastEnd' = "closed"
    /\ UNCHANGED <<process, spawned, alive, streams, stdout>>
    /\ UNCHANGED <<sinkVars, clientVars, orchVars, planVars, waitVars, turnVars>>

\* stop(), lines 95-98, on another thread
ProviderStop ==
    /\ plock = "free"
    /\ IF Running
       THEN /\ alive' = alive \ {process}
            /\ process' = 0
            /\ stdout' = << >>
       ELSE UNCHANGED <<process, alive, stdout>>
    /\ lastEnd' = "stop"
    /\ UNCHANGED <<spawned, plock, req, streams>>
    /\ UNCHANGED <<sinkVars, clientVars, orchVars, planVars, waitVars, turnVars>>

\* a worker exits or crashes
WorkerDies ==
    /\ \E w \in alive : alive' = alive \ {w}
    /\ UNCHANGED <<process, spawned, plock, req, lastEnd, streams, stdout>>
    /\ UNCHANGED <<sinkVars, clientVars, orchVars, planVars, waitVars, turnVars>>

(***************************************************************************)
(* SpecProv: stream() generators, stop() and the workers, interleaved.     *)
(***************************************************************************)
InitProv ==
    /\ sink = NewSink
    /\ outdata = Unfilled
    /\ tick = NoTick
    /\ lastOp = "init"
    /\ pre = NewSink
    /\ hist = << >>
    /\ purged = FALSE
    /\ accepted = << >>
    /\ emitted = << >>
    /\ InitClientState
    /\ InitProviderState
    /\ InitPlannerState
    /\ InitWaitState
    /\ InitTurnState

NextProv ==
    \/ \E g \in Gens : StreamCall(g)
    \/ \E g \in Gens : StreamAcquire(g)
    \/ \E g \in Gens : StreamStart(g)
    \/ \E g \in Gens : StreamPoll(g)
    \/ \E g \in Gens : StreamRestart(g)
    \/ \E g \in Gens : StreamPoll2(g)
    \/ \E g \in Gens : StreamWrite(g)
    \/ \E g \in Gens : StreamRead(g)
    \/ \E g \in Gens : StreamNext(g)
    \/ \E g \in Gens : StreamClose(g)
    \/ ProviderStop
    \/ WorkerDies

SpecProv == InitProv /\ [][NextProv]_vars

(***************************************************************************)
(* SpecLoop: the provider as the program drives it.  Every stream() call   *)
(* is made by _handle_speech_action on the one thread that runs speak()'s  *)
(* event loop, one call after the other.  A consumer that breaks out of    *)
(* its `async for` leaves the generator suspended at its yield, inside     *)
(* `with self.lock`; the event loop closes it (aclose) when it next runs,  *)
(* that is when the thread is at a suspension point and not inside a call. *)
(* stop() is called by shutdown() on another thread.                       *)
(***************************************************************************)
\* the thread is not inside a stream() call of its own
NotInCall(g) ==
    \A h \in Gens \ {g} :
        req[h].pc \in {"idle", "done", "raised", "abandoned"}

\* _handle_speech_action, line 109: the next stream() call of the thread
LoopCall(g) ==
    /\ NotInCall(g)
    /\ StreamCall(g)

\* tts_orchestrator.py line 114: break; the generator stays where it is
LoopBreak(g) ==
    /\ req[g].pc = "yielded"
    /\ req' = [req EXCEPT ![g].pc = "abandoned"]
    /\ UNCHANGED <<process, spawned, alive, plock, lastEnd, streams, stdout>>
    /\ UNCHANGED <<sinkVars, clientVars, orchVars, planVars, waitVars, turnVars>>

\* the event loop runs and closes the abandoned generator: GeneratorExit at
\* the yield of line 85 leaves the `with` block of line 60.  The loop does
\* not run while its thread waits for the lock at line 60.
LoopAclose(g) ==
    /\ req[g].pc = "abandoned"
    /\ \A h \in Gens : req[h].pc # "acquire"
    /\ req' = [req EXCEPT ![g].pc = "done"]
    /\ plock' = "free"
    /\ lastEnd' = "closed"
    /\ UNCHANGED <<process, spawned, alive, streams, stdout>>
    /\ UNCHANGED <<sinkVars, clientVars, orchVars, planVars, waitVars, turnVars>>

NextLoop ==
    \/ \E g \in Gens : LoopCall(g)
    \/ \E g \in Gens : StreamAcquire(g)
    \/ \E g \in Gens : StreamStart(g)
    \/ \E g \in Gens : StreamPoll(g)
    \/ \E g \in Gens : StreamRestart(g)
    \/ \E g \in Gens : StreamPoll2(g)
    \/ \E g \in Gens : StreamWrite(g)
    \/ \E g \in Gens : StreamRead(g)
    \/ \E g \in Gens : StreamNext(g)
    \/ \E g \in Gens : LoopBreak(g)
    \/ \E g \in Gens : LoopAclose(g)
    \/ ProviderStop
    \/ WorkerDies

\* the thread, the other thread and the worker go on while they can
SpecLoop == InitProv /\ [][NextLoop]_vars /\ WF_vars(NextLoop)

(***************************************************************************)
(* Properties of the provider, checked under SpecProv.                     *)
(***************************************************************************)
\* C11: at most one worker is alive at any time, a worker is started only
\* when none is alive, and at most one stream() generator is between taking
\* and releasing the lock (where it starts, polls, writes to and reads from
\* the worker), and it is the lock's holder.
C11_OneWorkerSerialized ==
    [][ /\ (spawned' > spawned => alive = {})
        /\ Cardinality(alive') <= 1
        /\ \A g, h \in Gens : InWorker(g)' /\ InWorker(h)' => g = h
        /\ \A g \in Gens : InWorker(g)' => plock' = g ]_vars

\* C11 witness: one generator is suspended at its yield, holding the lock,
\* the other waits for the lock; a second worker has replaced the first.
C11_Witness ==
    /\ req["g1"].pc = "yielded"
    /\ req["g2"].pc = "acquire"
    /\ plock = "g1"
    /\ spawned = 2
    /\ alive = {2}
    /\ process = 2

\* C12: a stream() call that finds the worker dead at line 63 makes exactly
\* one restart attempt; if the worker is still dead after it, the call ends
\* normally having yielded nothing and written nothing.
C12_OneRestartThenEmpty ==
    \A g \in Gens :
        req[g].deadAtPoll =>
            /\ req[g].restarts = (IF req[g].pc = "restart" THEN 0 ELSE 1)
            /\ req[g].stillDead =>
                   /\ req[g].pc = "done"
                   /\ req[g].yielded = 0
                   /\ ~req[g].wrote

\* C13: once a write or read in stream() has failed, that call has ended,
\* the worker it used has been killed and is not the provider's handle, and
\* the handle is None until another call sets it; the stream() call that
\* runs next calls Popen at line 61 and does its I/O on a worker started
\* after the one killed.
C13_IoFailureKillsAndClears ==
    /\ \A g \in Gens :
           req[g].ioFailed =>
               /\ req[g].pc = "done"
               /\ req[g].killed # 0
               /\ req[g].killed \notin alive
               /\ process # req[g].killed
    /\ lastEnd = "iofail" /\ (\A g \in Gens : ~InWorker(g)) => process = 0
    /\ \A g \in Gens :
           req[g].after = "iofail" /\ req[g].pc \notin {"acquire", "start"} =>
               /\ req[g].attempts = 1
               /\ req[g].pc \in {"write", "read", "yielded"} =>
                      \A h \in Gens : req[h].ioFailed => process > req[h].killed

\* C13 witness: one call failed while reading, after yielding a chunk; the
\* next call has started a second worker and written its text to it.
C13_Witness ==
    \E g, h \in Gens :
        /\ req[g].ioFailed /\ req[g].yielded >= 1 /\ req[g].killed = 1
        /\ req[h].after = "iofail" /\ req[h].wrote /\ process = 2

\* C14: no stream() call ends with an exception raised to its consumer.
C14_NoErrorPastProvider ==
    \A g \in Gens : req[g].pc # "raised"

(***************************************************************************)
(* SpeechPlanner.  A text is a sequence of characters, each a one-character *)
(* string; "LF" stands for the line feed.  The content of a Speech action   *)
(* is such a sequence; a Clip's name and a Pause's milliseconds are kept as *)
(* strings.                                                                 *)
(***************************************************************************)
LF == "LF"
Whitespace == {" ", LF}

\* \w of the patterns, on the characters of the model
WordChars == {"h", "a", "H", "A", "x", "l", "o", "m", "U+F0", "U+178"}

\* re.IGNORECASE
Lower(c) == CASE c = "H" -> "h" [] c = "A" -> "a" [] OTHER -> c

\* str.strip()
RECURSIVE LStrip(_)
LStrip(t) ==
    IF t # << >> /\ Head(t) \in Whitespace THEN LStrip(Tail(t)) ELSE t

RECURSIVE RStrip(_)
RStrip(t) ==
    IF t # << >> /\ t[Len(t)] \in Whitespace
    THEN RStrip(SubSeq(t, 1, Len(t) - 1)) ELSE t

Strip(t) == RStrip(LStrip(t))

\* str.split("\n"): the pieces between line feeds, at least one
RECURSIVE SplitLines(_, _)
SplitLines(t, cur) ==
    IF t = << >> THEN <<cur>>
    ELSE IF Head(t) = LF THEN <<cur>> \o SplitLines(Tail(t), << >>)
    ELSE SplitLines(Tail(t), Append(cur, Head(t)))

\* sub in text
Contains(t, sub) ==
    \E i \in 1..(Len(t) - Len(sub) + 1) : SubSeq(t, i, i + Len(sub) - 1) = sub

\* laughter_patterns, lines 64-68: the alternatives in order, whether the
\* pattern stands between \b and \b, its clip, and the number of groups of
\* f"({pattern})", the pattern passed to re.split at line 74.  The third
\* pattern holds the characters U+F0 U+178 U+2DC U+201A and U+F0 U+178 U+A4
\* U+A3 that the source file has there.
laughter_patterns ==
    << [alts |-> << <<"h", "a", "h", "a">>, <<"h", "a", "h", "a", "h", "a">> >>,
        bounded |-> TRUE, clip |-> "laugh_short_1", groups |-> 2],
       [alts |-> << <<"l", "o", "l">>, <<"l", "m", "a", "o">> >>,
        bounded |-> TRUE, clip |-> "laugh_soft_1", groups |-> 2],
       [alts |-> << <<"U+F0", "U+178", "U+2DC", "U+201A">>,
                    <<"U+F0", "U+178", "U+A4", "U+A3">> >>,
        bounded |-> FALSE, clip |-> "laugh_short_1", groups |-> 1] >>

\* alternative alt of pattern pat matches text t at position i, the \b's
\* included
AltMatches(pat, alt, t, i) ==
    LET n == Len(alt)
    IN  /\ i + n - 1 <= Len(t)
        /\ \A k \in 1..n : Lower(t[i + k - 1]) = alt[k]
        /\ pat.bounded =>
               /\ i = 1 \/ t[i - 1] \notin WordChars
               /\ i + n > Len(t) \/ t[i + n] \notin WordChars

\* the length of the pattern's match at position i (the first alternative
\* that matches), or 0
MatchLen(pat, t, i) ==
    LET ks == {k \in 1..Len(pat.alts) : AltMatches(pat, pat.alts[k], t, i)}
    IN  IF ks = {} THEN 0
        ELSE Len(pat.alts[CHOOSE k \in ks : \A j \in ks : k <= j])

\* re.search(pattern, text, re.IGNORECASE)
Search(pat, t) == \E i \in 1..Len(t) : MatchLen(pat, t, i) > 0

\* re.split(f"({pattern})", text): the text before each match, then the
\* match once per group, and the text after the last match
RECURSIVE SplitParts(_, _, _, _)
SplitParts(pat, t, i, cur) ==
    IF i > Len(t) THEN <<cur>>
    ELSE LET n == MatchLen(pat, t, i)
         IN  IF n > 0
             THEN <<cur>>
                  \o [g \in 1..pat.groups |-> SubSeq(t, i, i + n - 1)]
                  \o SplitParts(pat, t, i + n, << >>)
             ELSE SplitParts(pat, t, i + 1, Append(cur, t[i]))

\* lines 76-86: one action per non-blank part: a Clip for a part the
\* pattern matches at its start (re.match), a Speech for any other
RECURSIVE PartActions(_, _)
PartActions(pat, parts) ==
    IF parts = << >> THEN << >>
    ELSE LET part == Strip(Head(parts))
         IN  (IF part = << >> THEN << >>
              ELSE IF MatchLen(pat, part, 1) > 0 THEN <<Clip(pat.clip)>>
              ELSE <<Speech(part)>>)
             \o PartActions(pat, Tail(parts))

\* re.search(r"[.!?]\s*$", text) and re.search(r",\s*$", text)
EndsIn(t, chars) ==
    LET r == RStrip(t) IN r # << >> /\ r[Len(r)] \in chars

\* lines 96-115: a line without laughter
PunctuationActions(text) ==
    IF EndsIn(text, {".", "!", "?"}) THEN <<Speech(text), Pause("300")>>
    ELSE IF EndsIn(text, {","}) THEN <<Speech(text), Pause("120")>>
    ELSE IF Contains(text, <<".", ".", ".">>) THEN <<Speech(text), Pause("400")>>
    ELSE <<Speech(text)>>

\* lines 74-89: split around the laughter, then the pause after it
LaughterActions(pat, text) ==
    PartActions(pat, SplitParts(pat, text, 1, << >>)) \o <<Pause("150")>>

\* lines 59-115, the body of the loop over the lines: the actions of one line
PauseAlways300(line) ==
    LET text == Strip(line)
        found == {k \in 1..Len(laughter_patterns) :
                      Search(laughter_patterns[k], text)}
    IN  IF text = << >> THEN << >>
        ELSE IF found # {}
        THEN LaughterActions(
                 laughter_patterns[CHOOSE k \in found : \A j \in found : k <= j],
                 text)
        ELSE <<Speech(text), Pause("300")>>
LineActions(line) ==
    LET text == Strip(line)
        found == {k \in 1..Len(laughter_patterns) :
                      Search(laughter_patterns[k], text)}
    IN  IF text = << >> THEN << >>
        ELSE IF found # {}
        THEN LaughterActions(
                 laughter_patterns[CHOOSE k \in found : \A j \in found : k <= j],
                 text)
        ELSE PunctuationActions(text)

RECURSIVE LinesActions(_)
LinesActions(lines) ==
    IF lines = << >> THEN << >>
    ELSE LineActions(Head(lines)) \o LinesActions(Tail(lines))

\* _should_flush, lines 38-48
ShouldFlushOnLineBreakOnly(buf) ==
    \E i \in 1..Len(buf) : buf[i] = LF
ShouldFlush(buf) ==
    \/ \E i \in 1..Len(buf) : buf[i] = LF
    \/ Len(buf) > FlushLen

\* _flush, lines 50-117: [actions, buffer, flushed]
FlushKeepsLines(buf) ==
    LET lines == SplitLines(buf, << >>)
    IN  [actions |-> LinesActions(SubSeq(lines, 1, Len(lines) - 1)),
         buffer |-> buf, flushed |-> TRUE]
FlushDropsPartial(buf) ==
    LET lines == SplitLines(buf, << >>)
    IN  [actions |-> LinesActions(SubSeq(lines, 1, Len(lines) - 1)),
         buffer |-> << >>, flushed |-> TRUE]
Flush(buf) ==
    LET lines == SplitLines(buf, << >>)
    IN  [actions |-> LinesActions(SubSeq(lines, 1, Len(lines) - 1)),
         buffer |-> lines[Len(lines)], flushed |-> TRUE]

\* feed, lines 25-36: [actions, buffer, flushed]
Feed(buf, token) ==
    IF ShouldFlush(buf \o token) THEN Flush(buf \o token)
    ELSE [actions |-> << >>, buffer |-> buf \o token, flushed |-> FALSE]

\* finalize, lines 119-125: [actions, buffer]
FinalizeWithLaughter(buf) ==
    IF Strip(buf) # << >>
    THEN [actions |-> LineActions(buf), buffer |-> << >>]
    ELSE [actions |-> << >>, buffer |-> buf]
Finalize(buf) ==
    IF Strip(buf) # << >>
    THEN [actions |-> <<Speech(Strip(buf))>>, buffer |-> << >>]
    ELSE [actions |-> << >>, buffer |-> buf]

(***************************************************************************)
(* SpecPlan: one planner fed token by token and finalized, turn after      *)
(* turn.  fed and emittedActions cover the turn in progress: the feed()    *)
(* that follows a finalize() starts them again.                            *)
(***************************************************************************)
\* the tokens the text stream may deliver
Tokens ==
    { <<"h", "a", "h", "a">>, <<"H", "a", "h", "a", "h", "a">>,
      <<"l", "o", "l">>, <<"x">>, <<" ">>,
      <<".">>, <<",">>, <<".", ".", ".">>, <<LF>>,
      <<"x", LF, ",", LF, "x">>,
      <<"U+F0", "U+178", "U+2DC", "U+201A">> }

InitPlan ==
    /\ sink = NewSink
    /\ outdata = Unfilled
    /\ tick = NoTick
    /\ lastOp = "init"
    /\ pre = NewSink
    /\ hist = << >>
    /\ purged = FALSE
    /\ accepted = << >>
    /\ emitted = << >>
    /\ InitClientState
    /\ InitProviderState
    /\ InitPlannerState
    /\ InitWaitState
    /\ InitTurnState

\* planner.feed(token)
PlannerFeed(token) ==
    LET newTurn == lastCall.op = "finalize"
        r == Feed(planner.buffer, token)
    IN  /\ newTurn \/ Len(fed) < MaxFeeds
        /\ planner' = [planner EXCEPT !.buffer = r.buffer]
        /\ fed' = IF newTurn THEN <<token>> ELSE Append(fed, token)
        /\ emittedActions' =
               IF newTurn THEN r.actions ELSE emittedActions \o r.actions
        /\ lastCall' = [op |-> "feed", before |-> planner.buffer,
                        token |-> token, result |-> r.actions,
                        flushed |-> r.flushed]
        /\ UNCHANGED turns
        /\ UNCHANGED <<sinkVars, clientVars, orchVars, provVars, waitVars, turnVars>>

\* planner.finalize()
PlannerFinalize ==
    LET r == Finalize(planner.buffer)
    IN  /\ lastCall.op # "finalize"
        /\ turns < MaxPlanTurns
        /\ turns' = turns + 1
        /\ planner' = [planner EXCEPT !.buffer = r.buffer]
        /\ emittedActions' = emittedActions \o r.actions
        /\ lastCall' = [op |-> "finalize", before |-> planner.buffer,
                        token |-> << >>, result |-> r.actions,
                        flushed |-> FALSE]
        /\ UNCHANGED fed
        /\ UNCHANGED <<sinkVars, clientVars, orchVars, provVars, waitVars, turnVars>>

NextPlan ==
    \/ \E token \in Tokens : PlannerFeed(token)
    \/ PlannerFinalize

SpecPlan == InitPlan /\ [][NextPlan]_vars

(***************************************************************************)
(* Properties of the planner, under SpecPlan.                              *)
(***************************************************************************)
\* the text the last feed() had in hand: the buffer it found and its token
InHand == lastCall.before \o lastCall.token

HasLineBreak(t) == \E i \in 1..Len(t) : t[i] = LF

\* the number of actions of a type in a sequence of actions
CountOf(acts, type) == Cardinality({i \in 1..Len(acts) : acts[i].type = type})

\* the tokens of a sequence of tokens, one after the other
RECURSIVE Concat(_)
Concat(tokens) ==
    IF tokens = << >> THEN << >> ELSE Head(tokens) \o Concat(Tail(tokens))

\* the text after the last line break of t
RECURSIVE AfterLastBreak(_)
AfterLastBreak(t) ==
    IF HasLineBreak(t) THEN AfterLastBreak(Tail(t)) ELSE t

\* C16: a feed() whose text in hand has no line break and at most the flush
\* length of characters does not flush, returns no action and keeps the
\* text, so that a turn fed this way has emitted nothing before finalize();
\* a feed() whose token brings a line break or takes the buffer over the
\* flush length runs the flush in that same call.  A flush for a line break
\* leaves the text after the last line break in the buffer and returns
\* actions when a line before it is not blank.
C16_FlushOnLineBreakOrLength ==
    lastCall.op = "feed" =>
        /\ lastCall.flushed <=>
               (HasLineBreak(InHand) \/ Len(InHand) > FlushLen)
        /\ ~HasLineBreak(InHand) /\ Len(InHand) <= FlushLen =>
               /\ lastCall.result = << >>
               /\ planner.buffer = InHand
        /\ ~HasLineBreak(Concat(fed)) /\ Len(planner.buffer) <= FlushLen =>
               emittedActions = << >>
        /\ HasLineBreak(InHand) =>
               /\ planner.buffer = AfterLastBreak(InHand)
               /\ Strip(SubSeq(InHand, 1, Len(InHand) - Len(planner.buffer)))
                      # << >> => lastCall.result # << >>

\* a feed() without any line break took the buffer over the flush length
C16_Witness ==
    /\ lastCall.op = "feed"
    /\ lastCall.flushed
    /\ ~HasLineBreak(InHand)
    /\ Len(lastCall.before) <= FlushLen
    /\ Len(lastCall.before) > 0
    /\ Len(InHand) > FlushLen

\* the text of the Speech actions of a sequence of actions, in order
RECURSIVE SpeechText(_)
SpeechText(acts) ==
    IF acts = << >> THEN << >>
    ELSE (IF Head(acts).type = "speech" THEN Head(acts).content ELSE << >>)
         \o SpeechText(Tail(acts))

\* the lines of a text, each trimmed, one after the other
RECURSIVE TrimmedLines(_)
TrimmedLines(lines) ==
    IF lines = << >> THEN << >>
    ELSE Strip(Head(lines)) \o TrimmedLines(Tail(lines))

\* a text from position i on without the matches of a pattern, each piece
\* around them trimmed
RECURSIVE TextAround(_, _, _, _)
TextAround(pat, t, i, cur) ==
    IF i > Len(t) THEN Strip(cur)
    ELSE LET n == MatchLen(pat, t, i)
         IN  IF n > 0 THEN Strip(cur) \o TextAround(pat, t, i + n, << >>)
             ELSE TextAround(pat, t, i + 1, Append(cur, t[i]))

\* a trimmed line without its laughter markers: those of the first pattern,
\* in the order of laughter_patterns, that the line has
WithoutLaughter(text) ==
    LET found == {k \in 1..Len(laughter_patterns) :
                      Search(laughter_patterns[k], text)}
    IN  IF found = {} THEN text
        ELSE TextAround(
                 laughter_patterns[CHOOSE k \in found : \A j \in found : k <= j],
                 text, 1, << >>)

RECURSIVE TrimmedLinesWithoutLaughter(_)
TrimmedLinesWithoutLaughter(lines) ==
    IF lines = << >> THEN << >>
    ELSE WithoutLaughter(Strip(Head(lines)))
         \o TrimmedLinesWithoutLaughter(Tail(lines))

\* the lines of the turn's input: all but the last are completed by a line
\* break and flushed by feed(), the last is what finalize() finds
InputLines == SplitLines(Concat(fed), << >>)

\* C17 as stated: after finalize(), the Speech text of the turn is the
\* input, line by line, each line trimmed.
C17_SpeechTextIsTrimmedInput ==
    lastCall.op = "finalize" =>
        SpeechText(emittedActions) = TrimmedLines(InputLines)

\* C17, amended: after finalize(), the Speech text of the turn is the input,
\* line by line, each line trimmed, without the laughter markers of the
\* lines that feed() flushed and with the text around each marker trimmed.
C17_SpeechTextIsInputWithoutLaughter ==
    lastCall.op = "finalize" =>
        SpeechText(emittedActions) =
            TrimmedLinesWithoutLaughter(
                SubSeq(InputLines, 1, Len(InputLines) - 1))
            \o Strip(InputLines[Len(InputLines)])

\* a turn of three feeds: a line with text and a laugh, flushed by feed(),
\* then a partial line left to finalize()
C17_Witness ==
    /\ lastCall.op = "finalize"
    /\ Len(fed) = 3
    /\ CountOf(emittedActions, "audio") > 0
    /\ CountOf(emittedActions, "speech") > 1
    /\ lastCall.result # << >>

\* two sequences of actions are the same, action by action
SameActions(a, b) ==
    /\ Len(a) = Len(b)
    /\ \A i \in 1..Len(a) :
           a[i].type = b[i].type /\ a[i].content = b[i].content

\* a Speech for a text that is not blank
SpeechIfAny(t) ==
    IF Strip(t) = << >> THEN << >> ELSE <<Speech(Strip(t))>>

\* a text from position i on, split around the matches of a pattern: a
\* Speech per text between matches that is not blank, one Clip per match
RECURSIVE OneClipPerMatch(_, _, _, _)
OneClipPerMatch(pat, t, i, cur) ==
    IF i > Len(t) THEN SpeechIfAny(cur)
    ELSE LET n == MatchLen(pat, t, i)
         IN  IF n > 0
             THEN SpeechIfAny(cur) \o <<Clip(pat.clip)>>
                  \o OneClipPerMatch(pat, t, i + n, << >>)
             ELSE OneClipPerMatch(pat, t, i + 1, Append(cur, t[i]))

\* the lines that the last feed() completed
CompletedLines ==
    LET lines == SplitLines(InHand, << >>)
    IN  SubSeq(lines, 1, Len(lines) - 1)

\* C18: a feed() that flushes one line holding a whole-word haha or hahaha
\* returns a Speech per text between the matches, one Clip("laugh_short_1")
\* per match, and then one Pause(150), nothing else.
C18_OneClipPerLaugh ==
    lastCall.op = "feed" /\ Len(CompletedLines) = 1
        /\ Search(laughter_patterns[1], Strip(CompletedLines[1])) =>
        SameActions(lastCall.result,
                    OneClipPerMatch(laughter_patterns[1],
                                    Strip(CompletedLines[1]), 1, << >>)
                    \o <<Pause("150")>>)

\* the one token "haha" was fed to the fresh planner and finalize() called
HahaThenFinalize ==
    /\ lastCall.op = "finalize"
    /\ turns = 1
    /\ fed = << <<"h", "a", "h", "a">> >>

HasLaughter(text) ==
    \E k \in 1..Len(laughter_patterns) : Search(laughter_patterns[k], text)

\* the pause that the end of a trimmed line, not blank, calls for
PauseFor(text) ==
    LET last == text[Len(text)]
    IN  IF last \in {".", "!", "?"} THEN "300"
        ELSE IF last = "," THEN "120"
        ELSE IF \E i \in 1..(Len(text) - 2) :
                    text[i] = "." /\ text[i + 1] = "." /\ text[i + 2] = "."
        THEN "400"
        ELSE "none"

\* one Speech of the whole trimmed line and the pause it calls for, line
\* after line; nothing for a blank line
RECURSIVE SpeechAndPause(_)
SpeechAndPause(lines) ==
    IF lines = << >> THEN << >>
    ELSE LET text == Strip(Head(lines))
         IN  (IF text = << >> THEN << >>
              ELSE IF PauseFor(text) = "none" THEN <<Speech(text)>>
              ELSE <<Speech(text), Pause(PauseFor(text))>>)
             \o SpeechAndPause(Tail(lines))

\* C20: a feed() that flushes lines without laughter marker returns, for
\* each line that is not blank, one Speech of the whole trimmed line, then a
\* Pause of 300 when the line ends in . ! or ?, else of 120 when it ends in
\* a comma, else of 400 when it holds "...", else no Pause.
C20_SpeechThenPauseByPriority ==
    lastCall.op = "feed" /\ lastCall.flushed
        /\ (\A i \in 1..Len(CompletedLines) :
                ~HasLaughter(Strip(CompletedLines[i]))) =>
        SameActions(lastCall.result, SpeechAndPause(CompletedLines))

\* a line that holds "..." and ends in a letter was flushed
C20_Witness ==
    /\ lastCall.op = "feed"
    /\ Len(CompletedLines) = 1
    /\ Strip(CompletedLines[1]) = <<".", ".", ".", "x">>
    /\ Len(lastCall.result) = 2
    /\ lastCall.result[2].type = "pause"
    /\ lastCall.result[2].content = "400"

\* the lines of the turn's input that a line break has completed so far
CompletedSoFar == SubSeq(InputLines, 1, Len(InputLines) - 1)

\* C21: after every feed() the buffer has no line break, and the actions
\* emitted in the turn are those of the lines completed so far, each line
\* once and in order; a feed() whose token ends with a line break flushes
\* in that call and leaves the buffer empty, and "x.", line break, fed to
\* the fresh planner gives Speech("x.") and Pause(300).
C21_LineBreakFlushesAtOnce ==
    lastCall.op = "feed" =>
        /\ ~HasLineBreak(planner.buffer)
        /\ SameActions(emittedActions, LinesActions(CompletedSoFar))
        /\ HasLineBreak(Concat(fed)) =>
               planner.buffer = InputLines[Len(InputLines)]
        /\ lastCall.token[Len(lastCall.token)] = LF =>
               /\ lastCall.flushed
               /\ planner.buffer = << >>
        /\ turns = 0 /\ fed = << <<"x">>, <<".">>, <<LF>> >> =>
               /\ SameActions(lastCall.result,
                              <<Speech(<<"x", ".">>), Pause("300")>>)

\* the second line break of a turn has just been fed: its line comes after
\* the actions of the first
C21_Witness ==
    /\ lastCall.op = "feed"
    /\ lastCall.token = <<LF>>
    /\ lastCall.before # << >>
    /\ lastCall.result # << >>
    /\ Len(CompletedSoFar) > 1
    /\ Len(emittedActions) > Len(lastCall.result)
    /\ planner.buffer = << >>

\* C22: finalize() returns the buffered text that is not blank as one
\* Speech, with no Pause, and leaves the buffer empty, whatever was fed
\* before.
C22_FinalizeClearsBuffer ==
    lastCall.op = "finalize" =>
        /\ SameActions(lastCall.result, SpeechIfAny(lastCall.before))
        /\ planner.buffer = << >>

(***************************************************************************)
(* More properties of the orchestration, under SpecOrch.  start() and      *)
(* stop() hold the sink's lock from their first line to their last and are *)
(* one step each: no state lies inside one of them.                        *)
(***************************************************************************)
\* C23: whenever the sink is not started, its queue is empty: no play()
\* adds a chunk to the queue after a stop() has purged it.
C23_NoEnqueueAfterPurge ==
    ~sink.is_playing => sink.queue = << >>

\* C24: once an interrupt() that began during the speak() call in progress
\* has returned, that speak() call does not start the sink again and puts
\* nothing on its queue.
C24_InterruptEndsTheTurn ==
    count.cut = "done" /\ pc["speak"] # "idle" =>
        /\ ~sink.is_playing
        /\ sink.queue = << >>

(***************************************************************************)
(* More properties of the provider, under SpecProv.                        *)
(***************************************************************************)
\* C25: every chunk a stream() call yields holds audio of that call's text:
\* no call yields a block that the worker rendered from the text of another
\* call.
C25_ChunksOfOwnText ==
    \A g \in Gens : ~req[g].foreign

\* C26, under SpecLoop: a stream() call that waits for the provider's lock
\* gets it in the end, and the lock that an abandoned generator holds is
\* given back in the end, so that stop() can take it.
C26_LockNotLeftHeld ==
    \A g \in Gens :
        /\ req[g].pc = "acquire" ~> req[g].pc # "acquire"
        /\ req[g].pc = "abandoned" ~> plock # g

\* C28, under SpecSink: while the sink is started, the samples of the chunks
\* play() accepted since the start(), in the order they were enqueued, are
\* the samples emitted so far, then the buffer, then the chunks still in the
\* queue: none is lost, emitted twice or out of order.
C28_EmittedInOrder ==
    sink.is_playing =>
        accepted = emitted \o sink.buffer \o DecodeQueue(sink.queue)

\* C28 witness: several ticks have emitted audio, the last one took two
\* chunks off the queue and left samples in the buffer for the next.
C28_Witness ==
    /\ sink.is_playing
    /\ lastOp = "callback"
    /\ tick.popped >= 2
    /\ tick.real = Blocksize
    /\ Len(emitted) > Blocksize
    /\ sink.buffer # << >>

\* C30, under SpecPlan: a feed() that leaves more than the flush length of
\* characters in hand, none of them a line break, returns a Speech action
\* and leaves at most the flush length of characters in the buffer.
C30_LengthFlushMakesProgress ==
    (/\ lastCall.op = "feed"
     /\ ~HasLineBreak(InHand)
     /\ Len(InHand) > FlushLen)
        => /\ CountOf(lastCall.result, "speech") >= 1
           /\ Len(planner.buffer) <= FlushLen

=============================================================================
